---- MODULE Spec2Model ----
(***************************************************************************)
(* Verification model of the image film of libYafaRay                      *)
(* (src/src/render/imagefilm.cc): tile hand-out, sample accumulation,      *)
(* flush, the film checkpoint file and adaptive sampling; and of the       *)
(* scene's setup and render calls (src/src/scene/scene.cc).                *)
(*                                                                         *)
(* Numbers: the film's floats are modelled as integers (exact sums and     *)
(* products; a division truncates).                                        *)
(*                                                                         *)
(* Specifications:                                                         *)
(*   SpecTiles  worker threads pulling tiles (nextArea / finishArea),      *)
(*              the control thread calling init and nextPass               *)
(*   SpecConc   worker threads inside addSample, one load/store at a time  *)
(*   SpecAccum  addSample calls, one after the other                       *)
(*   SpecFlush  addSample, addDensitySample and flush                      *)
(*   SpecCkpt   addSample, imageFilmSave, imageFilmLoad                    *)
(*   SpecAdapt  addSample and nextPass (resample flags, doMoreSamples)     *)
(*   SpecBarrier  the pass loop: workers in addSample, nextPass between    *)
(*              passes                                                     *)
(*   SpecScene  Scene::setupScene and Scene::render (scene.cc)             *)
(*   SpecLoadAll  addSample, imageFilmSave, imageFilmLoadAllInFolder       *)
(*   SpecArea   nextArea and finishArea as whole calls, areas with bounds  *)
(*   SpecDensity  worker threads inside addDensitySample and addSample     *)
(*   SpecAutosave  addSample and nextPass on a film with autosave intervals *)
(*   SpecFootprint  the pixels and table offsets of one addSample call     *)
(*   SpecReinit  SpecTiles with samples added, init called again           *)
(*   SpecAgree  addSample, then finishArea of a tile and flush             *)
(*   SpecObjects  Scene::startObjects and Scene::endObjects                *)
(*   SpecLayers  Scene::defineLayer and Scene::defineDependentLayers       *)
(***************************************************************************)
EXTENDS Integers, Sequences, FiniteSets, TLC

(***************************************************************************)
(* Bounds of the model                                                     *)
(***************************************************************************)
NumThreads == 2        \* worker threads
Width == 2             \* film width in pixels
Height == 2            \* film height in pixels
TileSize == 1          \* edge of a tile in pixels
MaxPasses == 2         \* passes rendered after an init
MaxSamples == 2        \* addSample calls issued in one behaviour
MaxFiles == 2          \* film files in the folder
MaxLoads == 1          \* imageFilmLoadAllInFolder calls in one behaviour
MaxAutoPasses == 3     \* nextPass calls on a film with an autosave interval
FootSize == 10         \* width and height of the film of SpecFootprint
MaxCalls == 6          \* startObjects and endObjects calls in one behaviour
MaxLayers == 2         \* layers defined before defineDependentLayers

(***************************************************************************)
(* Program constants                                                       *)
(***************************************************************************)
filter_table_size_global == 16
max_filter_size_global == 8

Threads == 1..NumThreads
NoThread == 0
NoArea == -1

VARIABLES
    \* ---- tile scheduling (ImageFilm members) ----
    split_,            \* film is split into tiles
    interactive,       \* session_global.isInteractive()
    started,           \* init has been called (splitter_ exists)
    area_cnt_,
    next_area_,
    completed_cnt_,
    n_pass_,
    abort_,
    outputs_,          \* the kinds of the outputs attached: "image", "gui"
    splitter_mutex_,   \* holder of the mutex, NoThread when free
    out_mutex_,
    \* ---- per worker thread ----
    pc,                \* position of the thread
    n,                 \* local n of nextArea
    area,              \* tile the thread holds (RenderArea), NoArea when none
    ret,               \* result of the thread's last nextArea call
    \* ---- history ----
    handed,            \* tile -> times nextArea returned it in this pass
    lateCall,          \* thread -> its last nextArea call began with abort_ set
    putFailed          \* a putPixel of finishArea has returned false since init

tileVars == <<split_, interactive, started, area_cnt_, next_area_, completed_cnt_,
              n_pass_, abort_, outputs_, splitter_mutex_, out_mutex_, pc, n, area, ret,
              handed, lateCall, putFailed>>

\* ---- film: configuration and accumulators (ImageFilm members) ----
VARIABLES
    layers_,           \* the layers that have an image (keys of image_layers_)
    filt,              \* filter type given to the constructor
    clamp_samples_,    \* aa_noise_params_.clamp_samples_
    weights_,          \* pixel -> accumulated filter weight
    image_layers_,     \* layer -> pixel -> accumulated colour
    log                \* history: the addSample calls issued, in order

filmVars == <<layers_, filt, clamp_samples_, weights_, image_layers_, log>>

\* ---- a worker thread inside addSample ----
VARIABLES
    image_mutex_,      \* holder of the mutex, NoThread when free
    cur,               \* thread -> the arguments of its addSample call
    pos,               \* thread -> pixels of the footprint done (loops at 750, 752)
    lpos,              \* thread -> layers of the pixel done (loop at 760)
    wtmp,              \* thread -> weight read from weights_, not yet written back
    ctmp               \* thread -> colour read from a layer image, not yet written back

concVars == <<image_mutex_, cur, pos, lpos, wtmp, ctmp>>

\* ---- film checkpoint ----
VARIABLES
    computer_node_,
    base_sampling_offset_,
    sampling_offset_,
    file,              \* the film file: the values written, in order; NoFile when absent
    fileFrom,          \* history: who wrote the file ("none", "save", "foreign")
    savedFilm,         \* history: the film as it was when imageFilmSave wrote the file
    fresh,             \* history: the film is as its constructor left it, or as a load
                       \* into such a film left it
    loadResult         \* what imageFilmLoad returned, "none" unless it was the last call

ckptVars == <<computer_node_, base_sampling_offset_, sampling_offset_, file, fileFrom,
              savedFilm, fresh, loadResult>>

\* ---- build, density estimation, outputs ----
VARIABLES
    have_opencv,           \* the library is built with HAVE_OPENCV
    film_save,             \* film_load_save_.mode_ is Save or LoadAndSave
    estimate_density_,
    density_image_,        \* pixel -> accumulated density colour
    num_density_samples_,
    sent,                  \* the last flush: its flags, the outputs whose putPixel it
                           \* called and the colour it gave them per layer and pixel
    flushes                \* history: flush calls since the last sample, 2 for more

flushVars == <<have_opencv, film_save, estimate_density_, density_image_,
               num_density_samples_, sent, flushes>>

\* ---- adaptive sampling (ImageFilm members) and the pass loop ----
VARIABLES
    aa_noise_params_,      \* threshold_, dark_detection_type_, dark_threshold_factor_,
                           \* variance_edge_size_, variance_pixels_, detect_color_noise_
    background_resampling_,
    flags_,                \* pixel -> resample flag
    passRet,               \* the last nextPass call: its arguments and the count it
                           \* returned; NoPass before the first call
    ctl                    \* position of the control thread: "idle", or inside nextPass

adaptVars == <<aa_noise_params_, background_resampling_, flags_, passRet, ctl>>

\* ---- Scene: integrators, render views, the render call ----
VARIABLES
    surf_integrator_,      \* name of the integrator installed, "null" when none
    vol_integrator_,
    image_film_,           \* the scene has an image film
    changes_,              \* creation_state_.changes_ is not CNone
    lights_,               \* names of the lights of the scene
    render_views_,         \* the render views in map order: camera found, light names
    setupRet,              \* what the last setupScene call did: "none", "true",
                           \* "false", or "crash" when the process died in it
    rpc,                   \* position of Scene::render
    rview,                 \* index of the render view the loop at 232 is at
    events,                \* history of the current render call: <<view, step>>
    renderRet              \* what the last render call returned, "none" while it runs

sceneVars == <<surf_integrator_, vol_integrator_, image_film_, changes_, lights_,
               render_views_, setupRet, rpc, rview, events, renderRet>>

\* ---- loading the film files of a folder ----
VARIABLES
    film_files,            \* the film files of the folder, in path order, each the
                           \* sequence of the values it holds
    resumed,               \* render_control.resumed()
    beforeLoad,            \* history: the film as imageFilmLoadAllInFolder found it
    loadCalls,             \* history: calls of imageFilmLoadAllInFolder so far
    \* ---- a worker thread inside addDensitySample ----
    density_image_mutex_,  \* holder of the mutex, NoThread when free
    dlog                   \* history: the addDensitySample calls issued, in order

loadVars == <<film_files, resumed, beforeLoad, loadCalls>>

densVars == <<density_image_mutex_, dlog>>

\* ---- autosave by pass interval ----
VARIABLES
    images_auto_save_params_,  \* interval_type_, interval_passes_, pass_counter_
    film_auto_save_,           \* film_load_save_.auto_save_: the same three fields
    in_progress,               \* render_control.inProgress() && !session_global.isPreview()
    passFlushed,               \* history: the last nextPass call flushed the image outputs
    elapsed                    \* history: nextPass calls since the last flush by nextPass,
                               \* or since init

autoVars == <<images_auto_save_params_, film_auto_save_, in_progress, passFlushed, elapsed>>

\* ---- one addSample call on a film wide enough for the widest filter ----
VARIABLES
    fin,                   \* the film and the arguments of the call
    x_index,               \* the entries of x_index written, in order
    y_index,
    foot                   \* x_0, x_1, y_0, y_1 of the call; NoFoot before it

\* ---- finishArea's pixels, the scene's creation state and layers ----
VARIABLES
    put,                   \* what the last finishArea gave to putPixel: tile, outputs, colours
    stack_,                \* creation_state_.stack_, front first
    calls,                 \* history: the startObjects / endObjects calls and their results
    scene_layers_,         \* Scene::layers_: the layer types defined
    types_order,           \* the order of Layer::Type, in which layers_ is iterated
    dependent              \* history: defineDependentLayers has run

lastVars == <<put, stack_, calls, scene_layers_, types_order, dependent>>

moreVars == <<fin, x_index, y_index, foot, lastVars>>

lateVars == <<loadVars, densVars, autoVars, moreVars>>

otherVars == <<adaptVars, sceneVars, lateVars>>

extraVars == <<ckptVars, flushVars, otherVars>>

restVars == <<concVars, extraVars>>

vars == <<tileVars, filmVars, concVars, extraVars>>

(***************************************************************************)
(* ImageSplitter: the image is cut into a grid of tiles of tile_size_      *)
(* pixels; getArea(n) delivers tile n when 0 <= n < size().                *)
(***************************************************************************)
CeilDiv(a, b) == (a + b - 1) \div b

SplitterSize == CeilDiv(Width, TileSize) * CeilDiv(Height, TileSize)

Tiles == 0..(SplitterSize - 1)

getArea(k) == k \in Tiles

(***************************************************************************)
(* std::mutex                                                              *)
(***************************************************************************)
MutexFree_NoExclusion(m) == TRUE

MutexFree(m) == m = NoThread

(***************************************************************************)
(* Film geometry. Pixels are film-relative: (i - cx_0_, j - cy_0_).        *)
(***************************************************************************)
cx_0_ == 1
cy_0_ == 2
cx_1_ == cx_0_ + Width
cy_1_ == cy_0_ + Height

Pixels == (0..(Width - 1)) \X (0..(Height - 1))

Max(a, b) == IF a >= b THEN a ELSE b
Min(a, b) == IF a <= b THEN a ELSE b
Abs(a) == IF a >= 0 THEN a ELSE -a

(***************************************************************************)
(* Colours (Rgba) are <<r, g, b, a>>.                                      *)
(***************************************************************************)
Black == <<0, 0, 0, 0>>

ColAdd(c, d) == <<c[1] + d[1], c[2] + d[2], c[3] + d[3], c[4] + d[4]>>

ColMul(c, f) == <<c[1] * f, c[2] * f, c[3] * f, c[4] * f>>

\* Rgb::clampProportionalRgb: scale r, g, b so that the largest is max_value;
\* nothing is done when max_value is 0.
clampProportionalRgb(c, max_value) ==
    LET max_rgb == Max(c[1], Max(c[2], c[3]))
    IN  IF max_value > 0 /\ max_rgb > max_value
        THEN <<(c[1] * max_value) \div max_rgb, (c[2] * max_value) \div max_rgb,
               (c[3] * max_value) \div max_rgb, c[4]>>
        ELSE c

\* Rgba::normalized(weight): the colour divided by the weight, black when the
\* weight is 0. Weights are in 1/Unit.
Unit == 10 * 10 * 10

normalized(c, w) ==
    IF w = 0 THEN Black
    ELSE <<(c[1] * Unit) \div w, (c[2] * Unit) \div w, (c[3] * Unit) \div w,
           (c[4] * Unit) \div w>>

(***************************************************************************)
(* Pixel filter table. Lengths (filter width, sub-pixel offsets) and       *)
(* filter weights are in 1/Unit.                                           *)
(***************************************************************************)
FilterTypes == {"Box", "Mitchell"}

filt_sz == 1500

\* integer square root, by bisection
RECURSIVE IsqrtBetween(_, _, _)
IsqrtBetween(k, lo, hi) ==
    IF lo = hi THEN lo
    ELSE LET mid == (lo + hi + 1) \div 2
         IN  IF mid * mid <= k THEN IsqrtBetween(k, mid, hi) ELSE IsqrtBetween(k, lo, mid - 1)

Isqrt(k) == IsqrtBetween(k, 0, 5 * Unit)

box(x, y) == Unit

\* Mitchell-Netravali: x = 2 * sqrt(dx^2 + dy^2) with dx = (x + 0.5) / 16.
mitchell(x, y) ==
    LET u == 2 * x + 1
        v == 2 * y + 1
        xm == (Isqrt((u * u + v * v) * 10000) * 10) \div filter_table_size_global
    IN  IF xm >= 2 * Unit THEN 0
        ELSE IF xm >= Unit
        THEN (xm * ((xm * ((xm * (-389)) \div Unit + 2000)) \div Unit - 3333)) \div Unit + 1778
        ELSE (((xm * xm) \div Unit) * ((1167 * xm) \div Unit - 2000)) \div Unit + 889

ffunc(f, x, y) == IF f = "Mitchell" THEN mitchell(x, y) ELSE box(x, y)

\* filterw_ after the constructor: half the pixel width, widened for Mitchell,
\* kept in [0.501, MAX_FILTER_SIZE / 2].
filterw_(filter_size, f) ==
    LET half == filter_size \div 2
        w == IF f = "Mitchell" THEN (half * 26) \div 10
             ELSE IF f = "Gauss" THEN half * 2
             ELSE half
    IN  Min(Max(501, w), (max_filter_size_global * Unit) \div 2)

\* filterw_ of a film built with the default AA_pixelwidth
FilterW(f) == filterw_(filt_sz, f)

\* filter_table_[offset], offset = y * 16 + x, one table per filter type
FilterTables ==
    [f \in FilterTypes |->
        [off \in 0..(filter_table_size_global * filter_table_size_global - 1) |->
            ffunc(f, off % filter_table_size_global, off \div filter_table_size_global)]]

filter_table_(f, offset) == FilterTables[f][offset]

(***************************************************************************)
(* Layers. image_layers_ is ordered by layer type; LayerOrder is that      *)
(* order.                                                                  *)
(***************************************************************************)
LayerOrder == <<"Combined", "AaSamples", "ObjIndexAbs", "NormalGeom", "NormalSmooth",
                "ZDepthNorm", "DebugFacesEdges", "DebugObjectsEdges", "Toon",
                "DebugSamplingFactor">>

LayerIndex(l) == CHOOSE k \in 1..Len(LayerOrder) : LayerOrder[k] = l

\* the layers of a film, in the order image_layers_ iterates over them
LayerSeq(ls) == SelectSeq(LayerOrder, LAMBDA l : l \in ls)

(***************************************************************************)
(* Samples: the arguments of one addSample call. x, y are image            *)
(* coordinates in [cx_0_, cx_1_) x [cy_0_, cy_1_), dx, dy the sub-pixel    *)
(* offset in 1/Unit, c names the ColorLayers the integrator computed.      *)
(***************************************************************************)
SubPixel == {250, 750}

ColorChoices == {1, 2}

\* the calls the model issues: each sub-pixel offset comes with its own colours
Samples ==
    {s \in [x : cx_0_..(cx_1_ - 1), y : cy_0_..(cy_1_ - 1), d : SubPixel, c : ColorChoices] :
        (s.d = 250) <=> (s.c = 1)}

\* (*color_layers)(layer).color_ of the sample
\* the sampling factor of a sample is 0 on the background (colour choice 1)
SampleColor(c, l) ==
    IF l = "DebugSamplingFactor" THEN <<c - 1, 0, 0, 1>>
    ELSE <<4 * c, LayerIndex(l) + c, (LayerIndex(l) * c) % 3, 1>>

(***************************************************************************)
(* addSample: filter extent and filter table offsets                       *)
(***************************************************************************)
\* math::roundToInt on a value in 1/Unit
roundToInt(v) == (v + Unit \div 2) \div Unit

\* lines 721-724: the filter extent relative to the sample's pixel, cut at
\* the film's first (c_0) and last (c_1 - 1) column or row
ExtentLo(c_0, x, dx, fw) == Max(c_0 - x, roundToInt(dx - fw))

ExtentHi_Unclamped(c_1, x, dx, fw) == roundToInt(dx + fw - Unit)

ExtentHi(c_1, x, dx, fw) == Min(c_1 - x - 1, roundToInt(dx + fw - Unit))

dx_0(x, dx, fw) == ExtentLo(cx_0_, x, dx, fw)
dx_1(x, dx, fw) == ExtentHi(cx_1_, x, dx, fw)
dy_0(y, dy, fw) == ExtentLo(cy_0_, y, dy, fw)
dy_1(y, dy, fw) == ExtentHi(cy_1_, y, dy, fw)

\* x_index[n], y_index[n]: floor(|i - (d - 0.5)| * table_scale_), with
\* table_scale_ = 0.9999 * filter_table_size / filterw_
TableIndex(i, d, fw) ==
    (Abs(i * Unit - (d - Unit \div 2)) * 9999 * filter_table_size_global) \div (10000 * fw)

\* x_0, x_1, y_0, y_1: the pixels (image coordinates) one addSample call
\* updates are x_0..x_1 times y_0..y_1
Extent(s, f) ==
    LET fw == FilterW(f)
    IN  [x_0 |-> s.x + dx_0(s.x, s.d, fw), x_1 |-> s.x + dx_1(s.x, s.d, fw),
         y_0 |-> s.y + dy_0(s.y, s.d, fw), y_1 |-> s.y + dy_1(s.y, s.d, fw)]

\* film pixel p is one of them
Inside(e, p) ==
    /\ e.x_0 <= p[1] + cx_0_ /\ p[1] + cx_0_ <= e.x_1
    /\ e.y_0 <= p[2] + cy_0_ /\ p[2] + cy_0_ <= e.y_1

InFootprint(s, f, p) == Inside(Extent(s, f), p)

\* the filter table offset and filter_wt of the sample at film pixel p
TableOffset(s, f, p) ==
    LET fw == FilterW(f)
        xi == TableIndex(p[1] + cx_0_ - s.x, s.d, fw)
        yi == TableIndex(p[2] + cy_0_ - s.y, s.d, fw)
    IN  yi * filter_table_size_global + xi

FilterWt(s, f, p) == filter_table_(f, TableOffset(s, f, p))

(***************************************************************************)
(* addSample, the whole call (lines 748-771 run under image_mutex_)        *)
(***************************************************************************)
\* line 757: weights_(i, j) = weights_(i, j) + filter_wt, once per pixel,
\* outside the loop over the layers
AccumWeight_PerLayer(old, filter_wt) == old + Cardinality(layers_) * filter_wt

AccumWeight(old, filter_wt) == old + filter_wt

\* lines 762-766: the sample's colour is clamped, then col * filter_wt is added
AccumColor_Overwrite(old, col, filter_wt) == ColMul(col, filter_wt)

AccumColor(old, col, filter_wt) == ColAdd(old, ColMul(col, filter_wt))

ClampedColor(s, l, clamp) == clampProportionalRgb(SampleColor(s.c, l), clamp)

addSampleWeights(w, s, f) ==
    LET e == Extent(s, f)
    IN  [p \in Pixels |->
            IF Inside(e, p) THEN AccumWeight(w[p], FilterWt(s, f, p)) ELSE w[p]]

addSampleImages(img, s, f, clamp) ==
    LET e == Extent(s, f)
    IN  [l \in DOMAIN img |->
            LET col == ClampedColor(s, l, clamp)
            IN  [p \in Pixels |->
                    IF Inside(e, p) THEN AccumColor(img[l][p], col, FilterWt(s, f, p))
                    ELSE img[l][p]]]

addSample(s) ==
    /\ Len(log) < MaxSamples
    /\ weights_' = addSampleWeights(weights_, s, filt)
    /\ image_layers_' = addSampleImages(image_layers_, s, filt, clamp_samples_)
    /\ log' = Append(log, s)
    /\ UNCHANGED <<layers_, filt, clamp_samples_>>

(***************************************************************************)
(* The film after construction and init: every buffer cleared              *)
(***************************************************************************)
\* filter type and clamp_samples_ of the films modelled
FilmConfigs == {<<"Box", 0>>, <<"Mitchell", 3>>}

EmptyWeights == [p \in Pixels |-> 0]

EmptyImages(ls) == [l \in ls |-> [p \in Pixels |-> Black]]

InitFilm(ls, cfgs) ==
    /\ layers_ \in ls
    /\ \E cfg \in cfgs : filt = cfg[1] /\ clamp_samples_ = cfg[2]
    /\ weights_ = EmptyWeights
    /\ image_layers_ = EmptyImages(layers_)
    /\ log = <<>>

\* the tile state of a film on which no tile is being rendered
InitTilesIdle ==
    /\ split_ = TRUE
    /\ interactive = FALSE
    /\ started = TRUE
    /\ area_cnt_ = SplitterSize
    /\ next_area_ = 0
    /\ completed_cnt_ = 0
    /\ n_pass_ = 1
    /\ abort_ = FALSE
    /\ outputs_ = {"image", "gui"}
    /\ splitter_mutex_ = NoThread
    /\ out_mutex_ = NoThread
    /\ pc = [t \in Threads |-> "idle"]
    /\ n = [t \in Threads |-> 0]
    /\ area = [t \in Threads |-> NoArea]
    /\ ret = [t \in Threads |-> FALSE]
    /\ handed = [k \in Tiles |-> 0]
    /\ lateCall = [t \in Threads |-> FALSE]
    /\ putFailed = FALSE

\* no thread is inside addSample
NoSample == [x |-> 0, y |-> 0, d |-> 0, c |-> 0]

InitConcIdle ==
    /\ image_mutex_ = NoThread
    /\ cur = [t \in Threads |-> NoSample]
    /\ pos = [t \in Threads |-> 0]
    /\ lpos = [t \in Threads |-> 0]
    /\ wtmp = [t \in Threads |-> 0]
    /\ ctmp = [t \in Threads |-> Black]

\* no film file, node and offsets as the constructor leaves them
NoFile == <<>>

NoFilm == [weights |-> EmptyWeights, images |-> <<>>, node |-> 0, base |-> 0, offset |-> 0]

InitCkptIdle ==
    /\ computer_node_ = 0
    /\ base_sampling_offset_ = 0
    /\ sampling_offset_ = 0
    /\ file = NoFile
    /\ fileFrom = "none"
    /\ savedFilm = NoFilm
    /\ fresh = TRUE
    /\ loadResult = "none"

\* nothing flushed yet
NoneSent == [flags |-> {}, to |-> {}, colors |-> <<>>]

EmptyDensity == [p \in Pixels |-> Black]

InitFlushIdle ==
    /\ have_opencv = FALSE
    /\ film_save = FALSE
    /\ estimate_density_ = FALSE
    /\ density_image_ = EmptyDensity
    /\ num_density_samples_ = 0
    /\ sent = NoneSent
    /\ flushes = 0

\* no adaptive sampling configured, nextPass not yet called
NoPass == [called |-> FALSE, adaptive_aa |-> FALSE, skip |-> FALSE, n_resample |-> 0]

DefaultAaNoiseParams ==
    [threshold_ |-> 0, dark_detection_type_ |-> "None", dark_threshold_factor_ |-> 0,
     variance_edge_size_ |-> 10, variance_pixels_ |-> 0, detect_color_noise_ |-> FALSE]

InitAdaptIdle ==
    /\ aa_noise_params_ = DefaultAaNoiseParams
    /\ background_resampling_ = TRUE
    /\ flags_ = [p \in Pixels |-> FALSE]
    /\ passRet = NoPass
    /\ ctl = "idle"

\* a scene on which neither setupScene nor render has been called
InitSceneIdle ==
    /\ surf_integrator_ = "null"
    /\ vol_integrator_ = "null"
    /\ image_film_ = FALSE
    /\ changes_ = FALSE
    /\ lights_ = {}
    /\ render_views_ = <<>>
    /\ setupRet = "none"
    /\ rpc = "idle"
    /\ rview = 0
    /\ events = <<>>
    /\ renderRet = "none"

\* no call made
NoFoot == [x_0 |-> 0, x_1 |-> -1, y_0 |-> 0, y_1 |-> -1]

\* no tile finished yet
NoPut == [tile |-> -1, to |-> {}, colors |-> <<>>]

\* Scene::Scene, lines 77-78
InitStack == <<"Ready">>

\* Layer::Type, as far as defineDependentLayers names it
LayerTypes ==
    <<"Combined", "ZDepthNorm", "NormalSmooth", "NormalGeom", "ReflectAll", "ReflectPerfect",
      "Glossy", "GlossyIndirect", "RefractAll", "RefractPerfect", "Trans", "TransIndirect",
      "IndirectAll", "Indirect", "DiffuseIndirect", "Mist", "ObjIndexMask",
      "ObjIndexMaskShadow", "ObjIndexMaskAll", "MatIndexMask", "MatIndexMaskShadow",
      "MatIndexMaskAll", "Toon", "DebugObjectsEdges", "DebugFacesEdges">>

InitLastIdle ==
    /\ put = NoPut
    /\ stack_ = InitStack
    /\ calls = <<>>
    /\ scene_layers_ = {"Combined"}
    /\ types_order = LayerTypes
    /\ dependent = FALSE

InitMoreIdle ==
    /\ fin = [cx_0 |-> cx_0_, cy_0 |-> cy_0_, width |-> Width, height |-> Height,
              x |-> cx_0_, y |-> cy_0_, d |-> 0, fw |-> Unit]
    /\ x_index = <<>>
    /\ y_index = <<>>
    /\ foot = NoFoot
    /\ InitLastIdle

\* no autosave interval, as factory leaves the parameters when none is given
NoAutoSave == [interval_type_ |-> "None", interval_passes_ |-> 1, pass_counter_ |-> 0]

\* no folder listed, the render not resumed
NoFolder == <<>>

InitLateIdle ==
    /\ film_files = NoFolder
    /\ resumed = FALSE
    /\ beforeLoad = NoFilm
    /\ loadCalls = 0
    /\ density_image_mutex_ = NoThread
    /\ dlog = <<>>
    /\ images_auto_save_params_ = NoAutoSave
    /\ film_auto_save_ = NoAutoSave
    /\ in_progress = TRUE
    /\ passFlushed = FALSE
    /\ elapsed = 0
    /\ InitMoreIdle

InitExtraIdle ==
    InitCkptIdle /\ InitFlushIdle /\ InitAdaptIdle /\ InitSceneIdle /\ InitLateIdle

(***************************************************************************)
(* SpecAccum: addSample calls on an initialised film, one after the other  *)
(***************************************************************************)
InitAccum ==
    InitTilesIdle /\ InitConcIdle /\ InitExtraIdle
    /\ InitFilm({{"Combined", "AaSamples", "ObjIndexAbs"}}, FilmConfigs)

AddSampleSeq == \E s \in Samples : addSample(s) /\ UNCHANGED <<tileVars, restVars>>

NextAccum == AddSampleSeq

SpecAccum == InitAccum /\ [][NextAccum]_vars

(***************************************************************************)
(* What the calls of the log contribute to a pixel                         *)
(***************************************************************************)
RECURSIVE SumWeights(_, _)
SumWeights(samples, p) ==
    IF samples = <<>> THEN 0
    ELSE LET s == Head(samples)
         IN  SumWeights(Tail(samples), p)
             + (IF InFootprint(s, filt, p) THEN FilterWt(s, filt, p) ELSE 0)

RECURSIVE SumColors(_, _, _)
SumColors(samples, l, p) ==
    IF samples = <<>> THEN Black
    ELSE LET s == Head(samples)
         IN  ColAdd(SumColors(Tail(samples), l, p),
                    IF InFootprint(s, filt, p)
                    THEN ColMul(ClampedColor(s, l, clamp_samples_), FilterWt(s, filt, p))
                    ELSE Black)

\* the film that results from applying the calls of a sequence in order
RECURSIVE FoldWeights(_)
FoldWeights(samples) ==
    IF samples = <<>> THEN EmptyWeights
    ELSE addSampleWeights(FoldWeights(SubSeq(samples, 1, Len(samples) - 1)),
                          samples[Len(samples)], filt)

RECURSIVE FoldImages(_)
FoldImages(samples) ==
    IF samples = <<>> THEN EmptyImages(layers_)
    ELSE addSampleImages(FoldImages(SubSeq(samples, 1, Len(samples) - 1)),
                         samples[Len(samples)], filt, clamp_samples_)

Perms(k) == {f \in [1..k -> 1..k] : \A i, j \in 1..k : f[i] = f[j] => i = j}

Permute(samples, f) == [i \in 1..Len(samples) |-> samples[f[i]]]

\* C3: weight conservation. After any sequence of addSample calls on an
\* empty film, each pixel's weight accumulator is the sum of the calls' filter
\* weights for that pixel (added once per call, not once per layer), each
\* layer's colour accumulator is the sum of clamped colour times the same
\* weights, and the normalised colour is that colour sum over that weight sum.
C3_WeightConservation ==
    \A p \in Pixels :
        LET W == SumWeights(log, p)
        IN  /\ weights_[p] = W
            /\ \A l \in layers_ :
                LET C == SumColors(log, l, p)
                IN  /\ image_layers_[l][p] = C
                    /\ normalized(image_layers_[l][p], weights_[p]) = normalized(C, W)

\* a pixel has received two calls' weights in a film of several layers
C3_Witness ==
    /\ Len(log) = 2
    /\ Cardinality(layers_) > 1
    /\ clamp_samples_ > 0
    /\ \E p \in Pixels : InFootprint(log[1], filt, p) /\ InFootprint(log[2], filt, p)
                           /\ weights_[p] > 0

\* C4: commutativity. Applying the calls of the log in any other order to an
\* empty film gives the same weight and colour accumulators in every pixel.
C4_Commutativity ==
    \A f \in Perms(Len(log)) :
        /\ FoldWeights(Permute(log, f)) = weights_
        /\ FoldImages(Permute(log, f)) = image_layers_

\* two different calls have hit a common pixel
C4_Witness ==
    /\ Len(log) = 2
    /\ log[1] # log[2]
    /\ \E p \in Pixels : InFootprint(log[1], filt, p) /\ InFootprint(log[2], filt, p)
                           /\ image_layers_["Combined"][p] # Black

(***************************************************************************)
(* SpecTiles: the control thread calls init, starts the workers of a pass, *)
(* waits for them and calls nextPass; each worker runs                     *)
(*     while(nextArea(a)) { render the tile; finishArea(a); }              *)
(***************************************************************************)
\* split_, interactive session, outputs attached
TileConfigs == {<<TRUE, FALSE, {"image", "gui"}>>, <<TRUE, TRUE, {"gui"}>>,
                <<FALSE, FALSE, {"image", "gui"}>>}

\* the film after the constructor: no splitter yet, no worker running
InitTiles ==
    /\ \E cfg \in TileConfigs : split_ = cfg[1] /\ interactive = cfg[2] /\ outputs_ = cfg[3]
    /\ started = FALSE
    /\ area_cnt_ = 0
    /\ next_area_ = 0
    /\ completed_cnt_ = 0
    /\ n_pass_ = 0
    /\ abort_ = FALSE
    /\ splitter_mutex_ = NoThread
    /\ out_mutex_ = NoThread
    /\ pc = [t \in Threads |-> "off"]
    /\ n = [t \in Threads |-> 0]
    /\ area = [t \in Threads |-> NoArea]
    /\ ret = [t \in Threads |-> FALSE]
    /\ handed = [k \in Tiles |-> 0]
    /\ lateCall = [t \in Threads |-> FALSE]
    /\ putFailed = FALSE

\* the control thread has no worker running: none started, or all joined
Rendezvous_NoBarrier == TRUE

Rendezvous == \A t \in Threads : pc[t] \in {"off", "done"}

\* ImageFilm::init
init ==
    /\ Rendezvous
    /\ image_layers_' = EmptyImages(layers_)
    /\ IF split_
       THEN next_area_' = 0 /\ area_cnt_' = SplitterSize
       ELSE area_cnt_' = 1 /\ UNCHANGED next_area_
    /\ started' = TRUE
    /\ abort_' = FALSE
    /\ completed_cnt_' = 0
    /\ n_pass_' = 1
    /\ pc' = [t \in Threads |-> "off"]
    /\ handed' = [k \in Tiles |-> 0]
    /\ lateCall' = [t \in Threads |-> FALSE]
    /\ putFailed' = FALSE
    /\ UNCHANGED <<split_, interactive, outputs_, splitter_mutex_, out_mutex_, n, area, ret>>
    /\ density_image_' = IF estimate_density_ THEN EmptyDensity ELSE density_image_
    /\ UNCHANGED <<layers_, filt, clamp_samples_, weights_, log>>
    /\ images_auto_save_params_' = [images_auto_save_params_ EXCEPT !.pass_counter_ = 0]
    /\ film_auto_save_' = [film_auto_save_ EXCEPT !.pass_counter_ = 0]
    /\ passFlushed' = FALSE
    /\ elapsed' = 0
    /\ UNCHANGED <<concVars, ckptVars, have_opencv, film_save, estimate_density_,
                   num_density_samples_, sent, flushes, adaptVars, sceneVars, loadVars,
                   densVars, in_progress, moreVars>>

\* ImageFilm::nextPass, lines 239-244: the tile counter restarts
NextPassArea_Keep(old) == old

NextPassArea(old) == 0

\* lines 243-244: the pass counters of the two autosaves go up
PassCounters ==
    /\ images_auto_save_params_' = [images_auto_save_params_ EXCEPT !.pass_counter_ = @ + 1]
    /\ film_auto_save_' = [film_auto_save_ EXCEPT !.pass_counter_ = @ + 1]

\* the films of SpecTiles have no autosave interval: lines 252-267 do nothing
nextPassTiles ==
    /\ started
    /\ Rendezvous
    /\ n_pass_ < MaxPasses
    /\ MutexFree(splitter_mutex_)
    /\ next_area_' = NextPassArea(next_area_)
    /\ n_pass_' = n_pass_ + 1
    /\ PassCounters
    /\ passFlushed' = FALSE
    /\ elapsed' = elapsed + 1
    /\ pc' = [t \in Threads |-> "off"]
    /\ handed' = [k \in Tiles |-> 0]
    /\ UNCHANGED <<split_, interactive, started, area_cnt_, completed_cnt_, abort_, outputs_,
                   splitter_mutex_, out_mutex_, n, area, ret, lateCall, putFailed>>
    /\ UNCHANGED <<filmVars, concVars, ckptVars, flushVars, adaptVars, sceneVars, loadVars,
                   densVars, in_progress, moreVars>>

\* the control thread starts the workers of a pass
renderPass ==
    /\ started
    /\ \A t \in Threads : pc[t] = "off"
    /\ pc' = [t \in Threads |-> "start"]
    /\ UNCHANGED <<split_, interactive, started, area_cnt_, next_area_, completed_cnt_,
                   n_pass_, abort_, outputs_, splitter_mutex_, out_mutex_, n, area, ret,
                   handed, lateCall, putFailed>>
    /\ UNCHANGED <<filmVars, restVars>>

\* the RenderArea nextArea delivers when the film is not split
WholeImage == SplitterSize

\* nextArea line 455: if(abort_) return false;
AbortSeen_Never(a) == FALSE

AbortSeen(a) == a

\* nextArea lines 455-459 and, for a film that is not split, 488-498
NextAreaEnter(t) ==
    /\ pc[t] = "start"
    /\ lateCall' = [lateCall EXCEPT ![t] = abort_]
    /\ IF AbortSeen(abort_)
       THEN /\ pc' = [pc EXCEPT ![t] = "done"]
            /\ ret' = [ret EXCEPT ![t] = FALSE]
            /\ UNCHANGED <<area_cnt_, area>>
       ELSE IF split_
       THEN /\ pc' = [pc EXCEPT ![t] = "na_lock"]
            /\ ret' = [ret EXCEPT ![t] = FALSE]
            /\ UNCHANGED <<area_cnt_, area>>
       ELSE IF area_cnt_ # 0
       THEN /\ pc' = [pc EXCEPT ![t] = "done"]
            /\ ret' = [ret EXCEPT ![t] = FALSE]
            /\ UNCHANGED <<area_cnt_, area>>
       ELSE /\ area_cnt_' = area_cnt_ + 1
            /\ area' = [area EXCEPT ![t] = WholeImage]
            /\ ret' = [ret EXCEPT ![t] = TRUE]
            /\ pc' = [pc EXCEPT ![t] = "render"]
    /\ UNCHANGED <<split_, interactive, started, next_area_, completed_cnt_, n_pass_, abort_,
                   outputs_, splitter_mutex_, out_mutex_, n, handed, putFailed>>
    /\ UNCHANGED <<filmVars, restVars>>

\* line 462: splitter_mutex_.lock()
NextAreaLock(t) ==
    /\ pc[t] = "na_lock"
    /\ MutexFree(splitter_mutex_)
    /\ splitter_mutex_' = t
    /\ pc' = [pc EXCEPT ![t] = "na_read"]
    /\ UNCHANGED <<split_, interactive, started, area_cnt_, next_area_, completed_cnt_,
                   n_pass_, abort_, outputs_, out_mutex_, n, area, ret, handed, lateCall,
                   putFailed>>
    /\ UNCHANGED <<filmVars, restVars>>

\* line 463, n = next_area_++: the read
NextAreaRead(t) ==
    /\ pc[t] = "na_read"
    /\ n' = [n EXCEPT ![t] = next_area_]
    /\ pc' = [pc EXCEPT ![t] = "na_write"]
    /\ UNCHANGED <<split_, interactive, started, area_cnt_, next_area_, completed_cnt_,
                   n_pass_, abort_, outputs_, splitter_mutex_, out_mutex_, area, ret, handed,
                   lateCall, putFailed>>
    /\ UNCHANGED <<filmVars, restVars>>

\* line 463, n = next_area_++: the write; line 464: splitter_mutex_.unlock()
NextAreaWrite(t) ==
    /\ pc[t] = "na_write"
    /\ next_area_' = n[t] + 1
    /\ splitter_mutex_' = NoThread
    /\ pc' = [pc EXCEPT ![t] = "na_get"]
    /\ UNCHANGED <<split_, interactive, started, area_cnt_, completed_cnt_, n_pass_, abort_,
                   outputs_, out_mutex_, n, area, ret, handed, lateCall, putFailed>>
    /\ UNCHANGED <<filmVars, restVars>>

\* lines 466-473 and 500: the tile n is delivered when the splitter has it
NextAreaGet(t) ==
    /\ pc[t] = "na_get"
    /\ IF getArea(n[t])
       THEN /\ area' = [area EXCEPT ![t] = n[t]]
            /\ handed' = [handed EXCEPT ![n[t]] = @ + 1]
            /\ ret' = [ret EXCEPT ![t] = TRUE]
            /\ pc' = [pc EXCEPT ![t] = IF interactive THEN "na_hl" ELSE "render"]
       ELSE /\ ret' = [ret EXCEPT ![t] = FALSE]
            /\ pc' = [pc EXCEPT ![t] = "done"]
            /\ UNCHANGED <<area, handed>>
    /\ n' = [n EXCEPT ![t] = 0]
    /\ UNCHANGED <<split_, interactive, started, area_cnt_, next_area_, completed_cnt_,
                   n_pass_, abort_, outputs_, splitter_mutex_, out_mutex_, lateCall, putFailed>>
    /\ UNCHANGED <<filmVars, restVars>>

\* lines 475-483: the tile is highlighted on the outputs, under out_mutex_
NextAreaHighlight(t) ==
    /\ pc[t] = "na_hl"
    /\ MutexFree(out_mutex_)
    /\ pc' = [pc EXCEPT ![t] = "render"]
    /\ UNCHANGED <<split_, interactive, started, area_cnt_, next_area_, completed_cnt_,
                   n_pass_, abort_, outputs_, splitter_mutex_, out_mutex_, n, area, ret,
                   handed, lateCall, putFailed>>
    /\ UNCHANGED <<filmVars, restVars>>

\* finishArea line 505: out_mutex_.lock(), once the tile is rendered
FinishAreaLock(t) ==
    /\ pc[t] = "render"
    /\ MutexFree(out_mutex_)
    /\ out_mutex_' = t
    /\ pc' = [pc EXCEPT ![t] = "fa_put"]
    /\ UNCHANGED <<split_, interactive, started, area_cnt_, next_area_, completed_cnt_,
                   n_pass_, abort_, outputs_, splitter_mutex_, n, area, ret, handed, lateCall,
                   putFailed>>
    /\ UNCHANGED <<filmVars, restVars>>

\* what putPixel can return: only an output that is not an image output is
\* written by finishArea
PutPixelResults == IF "gui" \in outputs_ THEN BOOLEAN ELSE {TRUE}

\* line 550: if(!output->putPixel(...)) abort_ = true;
PutPixelAbort_Ignore(old, ok) == old

PutPixelAbort(old, ok) == old \/ ~ok

\* finishArea lines 506-601: the tile's pixels go to the outputs, the tile is
\* counted, out_mutex_ is released
FinishAreaPut(t) ==
    /\ pc[t] = "fa_put"
    /\ \E ok \in PutPixelResults :
        /\ abort_' = PutPixelAbort(abort_, ok)
        /\ putFailed' = (putFailed \/ ~ok)
    /\ completed_cnt_' = completed_cnt_ + 1
    /\ out_mutex_' = NoThread
    /\ area' = [area EXCEPT ![t] = NoArea]
    /\ pc' = [pc EXCEPT ![t] = "start"]
    /\ UNCHANGED <<split_, interactive, started, area_cnt_, next_area_, n_pass_, outputs_,
                   splitter_mutex_, n, ret, handed, lateCall>>
    /\ UNCHANGED <<filmVars, restVars>>

Worker(t) ==
    \/ NextAreaEnter(t)
    \/ NextAreaLock(t)
    \/ NextAreaRead(t)
    \/ NextAreaWrite(t)
    \/ NextAreaGet(t)
    \/ NextAreaHighlight(t)
    \/ FinishAreaLock(t)
    \/ FinishAreaPut(t)

NextTiles == init \/ nextPassTiles \/ renderPass \/ \E t \in Threads : Worker(t)

InitTilesFilm ==
    /\ InitTiles
    /\ InitConcIdle
    /\ InitExtraIdle
    /\ InitFilm({{"Combined"}}, {<<"Box", 0>>})

SpecTiles == InitTilesFilm /\ [][NextTiles]_vars

\* C1: tile hand-out. Between one init/nextPass and the next no tile of the
\* splitter is returned by more than one nextArea call; when the workers of a
\* pass have all called nextArea until it returned false and no abort
\* occurred, every tile has been returned exactly once. This holds in every
\* pass, the ones after nextPass included.
C1_TileHandOut ==
    /\ \A k \in Tiles : handed[k] <= 1
    /\ \A t, u \in Threads : (t # u /\ area[t] # NoArea) => area[t] # area[u]
    /\ (split_ /\ ~abort_ /\ \A t \in Threads : pc[t] = "done")
        => \A k \in Tiles : handed[k] = 1

\* the second pass is over: after nextPass the workers have drawn every tile again
C1_Witness ==
    /\ split_
    /\ ~abort_
    /\ n_pass_ = 2
    /\ \A t \in Threads : pc[t] = "done"
    /\ \A k \in Tiles : handed[k] = 1
    /\ completed_cnt_ = 2 * SplitterSize

\* C10: cooperative abort. Once a putPixel of finishArea has returned false
\* the abort flag is set and stays set until init; a nextArea call that begins
\* while it is set returns false and hands out no tile, whichever thread calls
\* and however many nextPass calls lie in between.
C10_CooperativeAbort ==
    /\ putFailed => abort_
    /\ \A t \in Threads : lateCall[t] => (~ret[t] /\ area[t] = NoArea /\ pc[t] \in {"done", "off", "start"})

\* after a failed putPixel and a nextPass, a nextArea call has returned false
\* although tiles were left
C10_Witness ==
    /\ putFailed
    /\ n_pass_ = 2
    /\ next_area_ = 0
    /\ \E t \in Threads : lateCall[t] /\ pc[t] = "done" /\ ~ret[t]

\* C17: single-area mode. On a film that is not split, the first nextArea call
\* of a pass (no call of the pass has been made yet, abort_ is clear) returns
\* true with the whole image as its area.
C17_SingleArea ==
    [][(/\ ~split_ /\ ~abort_
        /\ \A t \in Threads : pc[t] = "start" /\ ~ret[t]
        /\ \E t \in Threads : pc'[t] # "start")
       => \E t \in Threads : ret'[t] /\ area'[t] = WholeImage]_vars

(***************************************************************************)
(* SpecConc: worker threads inside addSample. Every read and every write   *)
(* of an accumulator is a step of its own, so that calls of different      *)
(* threads interleave wherever image_mutex_ lets them.                     *)
(***************************************************************************)
\* the calls issued: samples on the film's first row, whose footprints overlap
ConcSamples == {s \in Samples : s.y = cy_0_ /\ s.x <= cx_0_ + 1}

\* number of pixels of the footprint, and its k-th pixel (k from 0) in the
\* order of the loops at 750-752, as a film pixel
FootprintSize(e) == (e.x_1 - e.x_0 + 1) * (e.y_1 - e.y_0 + 1)

FootprintPixel(e, k) ==
    LET w == e.x_1 - e.x_0 + 1
    IN  <<e.x_0 + (k % w) - cx_0_, e.y_0 + (k \div w) - cy_0_>>

CurPixel(t) == FootprintPixel(Extent(cur[t], filt), pos[t])

CurLayer(t) == LayerSeq(layers_)[lpos[t] + 1]

\* lines 717-746: the call begins, the filter extent is computed
AddSampleBegin(t, s) ==
    /\ pc[t] = "idle"
    /\ Len(log) < MaxSamples
    /\ cur' = [cur EXCEPT ![t] = s]
    /\ log' = Append(log, s)
    /\ pc' = [pc EXCEPT ![t] = "as_lock"]
    /\ UNCHANGED <<image_mutex_, pos, lpos, wtmp, ctmp>>
    /\ UNCHANGED <<layers_, filt, clamp_samples_, weights_, image_layers_>>

\* line 748: image_mutex_.lock()
AddSampleLock(t) ==
    /\ pc[t] = "as_lock"
    /\ MutexFree(image_mutex_)
    /\ image_mutex_' = t
    /\ pos' = [pos EXCEPT ![t] = 0]
    /\ pc' = [pc EXCEPT ![t] = "as_pixel"]
    /\ UNCHANGED <<cur, lpos, wtmp, ctmp>>
    /\ UNCHANGED filmVars

\* line 757, the read: weights_(i - cx_0_, j - cy_0_).getFloat()
AddSampleLoadWeight(t) ==
    /\ pc[t] = "as_pixel"
    /\ pos[t] < FootprintSize(Extent(cur[t], filt))
    /\ wtmp' = [wtmp EXCEPT ![t] = weights_[CurPixel(t)]]
    /\ pc' = [pc EXCEPT ![t] = "as_wstore"]
    /\ UNCHANGED <<image_mutex_, cur, pos, lpos, ctmp>>
    /\ UNCHANGED filmVars

\* line 757, the write: weights_(...).setFloat(... + filter_wt)
AddSampleStoreWeight(t) ==
    /\ pc[t] = "as_wstore"
    /\ weights_' = [weights_ EXCEPT ![CurPixel(t)] =
                        AccumWeight(wtmp[t], FilterWt(cur[t], filt, CurPixel(t)))]
    /\ wtmp' = [wtmp EXCEPT ![t] = 0]
    /\ lpos' = [lpos EXCEPT ![t] = 0]
    /\ pc' = [pc EXCEPT ![t] = "as_layer"]
    /\ UNCHANGED <<image_mutex_, cur, pos, ctmp>>
    /\ UNCHANGED <<layers_, filt, clamp_samples_, image_layers_, log>>

\* line 766, the read: it.second.image_->getColor(i - cx_0_, j - cy_0_)
AddSampleLoadColor(t) ==
    /\ pc[t] = "as_layer"
    /\ ctmp' = [ctmp EXCEPT ![t] = image_layers_[CurLayer(t)][CurPixel(t)]]
    /\ pc' = [pc EXCEPT ![t] = "as_cstore"]
    /\ UNCHANGED <<image_mutex_, cur, pos, lpos, wtmp>>
    /\ UNCHANGED filmVars

\* lines 762-766, the write: setColor(..., colour read + col * filter_wt); then
\* the next layer, or the next pixel after the last layer
AddSampleStoreColor(t) ==
    /\ pc[t] = "as_cstore"
    /\ image_layers_' =
         [image_layers_ EXCEPT ![CurLayer(t)][CurPixel(t)] =
            AccumColor(ctmp[t], ClampedColor(cur[t], CurLayer(t), clamp_samples_),
                       FilterWt(cur[t], filt, CurPixel(t)))]
    /\ ctmp' = [ctmp EXCEPT ![t] = Black]
    /\ IF lpos[t] + 1 < Len(LayerSeq(layers_))
       THEN /\ lpos' = [lpos EXCEPT ![t] = @ + 1]
            /\ pc' = [pc EXCEPT ![t] = "as_layer"]
            /\ UNCHANGED pos
       ELSE /\ lpos' = [lpos EXCEPT ![t] = 0]
            /\ pos' = [pos EXCEPT ![t] = @ + 1]
            /\ pc' = [pc EXCEPT ![t] = "as_pixel"]
    /\ UNCHANGED <<image_mutex_, cur, wtmp>>
    /\ UNCHANGED <<layers_, filt, clamp_samples_, weights_, log>>

\* line 771: image_mutex_.unlock(), after the last pixel of the footprint
AddSampleUnlock(t) ==
    /\ pc[t] = "as_pixel"
    /\ pos[t] = FootprintSize(Extent(cur[t], filt))
    /\ image_mutex_' = NoThread
    /\ cur' = [cur EXCEPT ![t] = NoSample]
    /\ pos' = [pos EXCEPT ![t] = 0]
    /\ pc' = [pc EXCEPT ![t] = "idle"]
    /\ UNCHANGED <<lpos, wtmp, ctmp>>
    /\ UNCHANGED filmVars

tileVarsButPc == <<split_, interactive, started, area_cnt_, next_area_, completed_cnt_,
                   n_pass_, abort_, outputs_, splitter_mutex_, out_mutex_, n, area, ret,
                   handed, lateCall, putFailed>>

\* what a step inside addSample leaves alone
ConcFrame == UNCHANGED <<tileVarsButPc, extraVars>>

NextConc ==
    \E t \in Threads :
        \/ (\E s \in ConcSamples : AddSampleBegin(t, s)) /\ ConcFrame
        \/ AddSampleLock(t) /\ ConcFrame
        \/ AddSampleLoadWeight(t) /\ ConcFrame
        \/ AddSampleStoreWeight(t) /\ ConcFrame
        \/ AddSampleLoadColor(t) /\ ConcFrame
        \/ AddSampleStoreColor(t) /\ ConcFrame
        \/ AddSampleUnlock(t) /\ ConcFrame

InitConc ==
    /\ InitTilesIdle
    /\ InitConcIdle
    /\ InitExtraIdle
    /\ InitFilm({{"Combined", "AaSamples"}}, {<<"Box", 3>>})

SpecConc == InitConc /\ [][NextConc]_vars

\* every call issued has returned
Quiescent == \A t \in Threads : pc[t] = "idle"

\* C2: no lost updates. Whenever the addSample calls issued by the threads
\* have all returned, however their steps interleaved, every pixel's weight
\* accumulator is the sum of the filter weights the calls contribute to it
\* and every layer's colour accumulator is the sum of clamped colour times
\* filter weight over the same calls; and a thread between its read and its
\* write of an accumulator is the only thread inside the locked region.
C2_NoLostUpdates ==
    /\ Quiescent =>
        \A p \in Pixels :
            /\ weights_[p] = SumWeights(log, p)
            /\ \A l \in layers_ : image_layers_[l][p] = SumColors(log, l, p)
    /\ \A t, u \in Threads :
        (pc[t] \in {"as_wstore", "as_cstore"} /\ u # t)
            => pc[u] \in {"idle", "as_lock"}

\* two calls have returned and both have added to a common pixel
C2_Witness ==
    /\ Quiescent
    /\ Len(log) = 2
    /\ \E p \in Pixels : InFootprint(log[1], filt, p) /\ InFootprint(log[2], filt, p)
                           /\ weights_[p] > FilterWt(log[1], filt, p)

(***************************************************************************)
(* The film file. File::append writes one value after the other and        *)
(* File::read delivers them in the order written, so the file is the       *)
(* sequence of the values.                                                 *)
(***************************************************************************)
FilmHeader == "YAF_FILMv4_0_0"

\* imageFilmSave lines 1080-1090: what precedes the pixel data
FileHead(node, base, offset, w, h, x0, x1, y0, y1, nlayers) ==
    <<FilmHeader, node, base, offset, w, h, x0, x1, y0, y1, nlayers>>

\* number of values a reader has consumed when the pixel data begin
HeadLen == Len(FileHead(0, 0, 0, 0, 0, 0, 0, 0, 0, 0))

\* the pixel a loop "for y, for x" visits k-th (k from 0)
RowMajor(k) == <<k % Width, k \div Width>>

\* lines 1104-1110: the weights, y outer, x inner
WeightTokens(w) == [k \in 1..(Width * Height) |-> w[RowMajor(k - 1)]]

\* lines 1128-1138: one layer image, y outer, x inner, r g b a of each pixel
ImageTokens(img) ==
    [k \in 1..(4 * Width * Height) |-> img[RowMajor((k - 1) \div 4)][((k - 1) % 4) + 1]]

\* lines 1112-1139: the layer images in the order of image_layers_
RECURSIVE LayersTokens(_, _)
LayersTokens(imgs, ls) ==
    IF ls = <<>> THEN <<>>
    ELSE ImageTokens(imgs[Head(ls)]) \o LayersTokens(imgs, Tail(ls))

SaveTokens(imgs) ==
    FileHead(computer_node_, base_sampling_offset_, sampling_offset_, Width, Height,
             cx_0_, cx_1_, cy_0_, cy_1_, Cardinality(DOMAIN imgs))
        \o WeightTokens(weights_)
        \o LayersTokens(imgs, LayerSeq(layers_))

\* the file imageFilmSave writes for a film whose layer images are imgs
WriteFilm(imgs) ==
    /\ file' = SaveTokens(imgs)
    /\ fileFrom' = "save"
    /\ savedFilm' = [weights |-> weights_, images |-> imgs,
                     node |-> computer_node_, base |-> base_sampling_offset_,
                     offset |-> sampling_offset_]

\* ImageFilm::imageFilmSave
imageFilmSave ==
    /\ WriteFilm(image_layers_)
    /\ loadResult' = "none"
    /\ UNCHANGED <<computer_node_, base_sampling_offset_, sampling_offset_, fresh>>
    /\ UNCHANGED filmVars

\* imageFilmLoad lines 895-949: the checks of the saved geometry and layer
\* count against the film's
LoadValidated_NoLayerCount(f) ==
    /\ f[5] = Width /\ f[6] = Height
    /\ f[7] = cx_0_ /\ f[8] = cx_1_ /\ f[9] = cy_0_ /\ f[10] = cy_1_

LoadValidated(f) ==
    /\ f[5] = Width /\ f[6] = Height
    /\ f[7] = cx_0_ /\ f[8] = cx_1_ /\ f[9] = cy_0_ /\ f[10] = cy_1_
    /\ f[11] = Cardinality(DOMAIN image_layers_)

\* lines 951-959: the weight of pixel (x, y) is the value read in turn y * width_ + x
ReadWeight_ColumnMajor(f, x, y) == f[HeadLen + x * Height + y + 1]

ReadWeight(f, x, y) == f[HeadLen + y * Width + x + 1]

\* lines 961-975: the colour of pixel (x, y) of the k-th layer (k from 0)
ReadColor(f, k, x, y) ==
    LET b == HeadLen + Width * Height + k * 4 * Width * Height + 4 * (y * Width + x)
    IN  <<f[b + 1], f[b + 2], f[b + 3], f[b + 4]>>

\* position (from 0) of layer l in the order of image_layers_
LayerPos(l) == (CHOOSE k \in 1..Len(LayerSeq(layers_)) : LayerSeq(layers_)[k] = l) - 1

\* ImageFilm::imageFilmLoad
imageFilmLoad ==
    LET opened == file # NoFile
        headerOk == opened /\ file[1] = FilmHeader
        valid == headerOk /\ LoadValidated(file)
    IN  /\ loadResult' = IF valid THEN "true" ELSE "false"
        /\ IF headerOk
           THEN /\ computer_node_' = file[2]
                /\ base_sampling_offset_' = file[3]
                /\ sampling_offset_' = file[4]
           ELSE UNCHANGED <<computer_node_, base_sampling_offset_, sampling_offset_>>
        /\ IF valid
           THEN /\ weights_' = [p \in Pixels |-> ReadWeight(file, p[1], p[2])]
                /\ image_layers_' =
                     [l \in DOMAIN image_layers_ |->
                        [p \in Pixels |-> ReadColor(file, LayerPos(l), p[1], p[2])]]
           ELSE UNCHANGED <<weights_, image_layers_>>
        /\ UNCHANGED <<file, fileFrom, savedFilm, fresh>>
        /\ UNCHANGED <<layers_, filt, clamp_samples_, log>>

(***************************************************************************)
(* SpecCkpt: a film receives samples, is saved, a fresh film is built and  *)
(* loads a film file: the one saved, one written elsewhere, or none.       *)
(***************************************************************************)
\* the calls issued: samples that fill the film unevenly
CkptSamples == {s \in Samples : s.y = cy_0_ /\ s.x = cx_0_ + 1}

AddSampleCkpt ==
    /\ \E s \in CkptSamples : addSample(s)
    /\ fresh' = FALSE
    /\ loadResult' = "none"
    /\ UNCHANGED <<computer_node_, base_sampling_offset_, sampling_offset_, file, fileFrom,
                   savedFilm>>

\* the constructor: a fresh film of the same geometry and layers
Construct ==
    /\ weights_' = EmptyWeights
    /\ image_layers_' = EmptyImages(layers_)
    /\ computer_node_' = 0
    /\ base_sampling_offset_' = 0
    /\ sampling_offset_' = 0
    /\ fresh' = TRUE
    /\ loadResult' = "none"
    /\ UNCHANGED <<layers_, filt, clamp_samples_, log, file, fileFrom, savedFilm>>

\* the scene's setup of the film: setBaseSamplingOffset(adv_base_sampling_offset),
\* setComputerNode(adv_computer_node)
AdvValues == {<<2, 2>>}

setupFilm ==
    /\ \E adv \in AdvValues :
        /\ base_sampling_offset_' = adv[1]
        /\ computer_node_' = adv[2]
    /\ fresh' = FALSE
    /\ loadResult' = "none"
    /\ UNCHANGED <<sampling_offset_, file, fileFrom, savedFilm>>
    /\ UNCHANGED filmVars

\* a film file written elsewhere: by a film that differs from this one in the
\* named field, or ("ok") in none; its node and offsets are 1
ForeignKinds == {"ok", "header", "width", "height", "cx0", "cx1", "cy0", "cy1", "layers"}

Off(kind, k) == IF kind = k THEN 1 ELSE 0

ForeignTokens(kind) ==
    LET nl == Cardinality(DOMAIN image_layers_) + Off(kind, "layers")
        head == FileHead(1, 1, 1, Width + Off(kind, "width"), Height + Off(kind, "height"),
                         cx_0_ + Off(kind, "cx0"), cx_1_ + Off(kind, "cx1"),
                         cy_0_ + Off(kind, "cy0"), cy_1_ + Off(kind, "cy1"), nl)
        data == [k \in 1..((Width + 1) * (Height + 1) * (1 + 4 * nl)) |-> k]
    IN  (IF kind = "header" THEN [head EXCEPT ![1] = "YAF_FILMv3_0_0"] ELSE head) \o data

ForeignFile ==
    /\ \E kind \in ForeignKinds : file' = ForeignTokens(kind)
    /\ fileFrom' = "foreign"
    /\ loadResult' = "none"
    /\ UNCHANGED <<computer_node_, base_sampling_offset_, sampling_offset_, savedFilm, fresh>>
    /\ UNCHANGED filmVars

\* what the film's sequential operations leave alone
CkptFrame == UNCHANGED <<tileVars, concVars, flushVars, otherVars>>

NextCkpt ==
    \/ AddSampleCkpt /\ CkptFrame
    \/ Construct /\ CkptFrame
    \/ setupFilm /\ CkptFrame
    \/ imageFilmSave /\ CkptFrame
    \/ ForeignFile /\ CkptFrame
    \/ imageFilmLoad /\ CkptFrame

InitCkpt ==
    /\ InitTilesIdle
    /\ InitConcIdle
    /\ InitExtraIdle
    /\ InitFilm({{"Combined", "ObjIndexAbs"}}, {<<"Box", 0>>})

SpecCkpt == InitCkpt /\ [][NextCkpt]_vars

\* C7: checkpoint round trip. When imageFilmLoad has just read the file that
\* imageFilmSave wrote for a film of the same width, height, crop origin and
\* layers, it has returned true and the film's weights, layer colours,
\* computer node, base sampling offset and sampling offset are those the
\* saved film had when it was saved.
C7_RoundTrip ==
    (loadResult # "none" /\ fileFrom = "save")
        => /\ loadResult = "true"
           /\ weights_ = savedFilm.weights
           /\ image_layers_ = savedFilm.images
           /\ computer_node_ = savedFilm.node
           /\ base_sampling_offset_ = savedFilm.base
           /\ sampling_offset_ = savedFilm.offset

\* a fresh film, which has received no sample, holds after the load the
\* uneven weights, the node and the offsets of the saved film
C7_Witness ==
    /\ loadResult = "true"
    /\ fileFrom = "save"
    /\ fresh
    /\ \E p \in Pixels : weights_[p] > 0 /\ weights_[<<p[2], p[1]>>] = 0
    /\ image_layers_["ObjIndexAbs"] # image_layers_["Combined"]
    /\ computer_node_ = 2
    /\ base_sampling_offset_ = 2
    /\ sampling_offset_ = 1

\* C8: checkpoint rejection leaves the film unmodified. A call of
\* imageFilmLoad that returns false leaves the weights, the layer colours,
\* the computer node, the base sampling offset and the sampling offset as
\* they were before the call.
C8_RejectionLeavesFilm ==
    [][loadResult' = "false" =>
          /\ weights_' = weights_
          /\ image_layers_' = image_layers_
          /\ computer_node_' = computer_node_
          /\ base_sampling_offset_' = base_sampling_offset_
          /\ sampling_offset_' = sampling_offset_]_vars

\* what the file must be for the load to be accepted
FileMatchesFilm ==
    /\ file # NoFile
    /\ file[1] = "YAF_FILMv4_0_0"
    /\ file[5] = Width /\ file[6] = Height
    /\ file[7] = cx_0_ /\ file[8] = cx_0_ + Width
    /\ file[9] = cy_0_ /\ file[10] = cy_0_ + Height
    /\ file[11] = Cardinality(layers_)

\* C9: checkpoint validation precedes data. imageFilmLoad returns true only
\* for a file that opens, begins with the header "YAF_FILMv4_0_0" and whose
\* saved width, height, cx0, cx1, cy0, cy1 and layer count equal the film's;
\* a call that returns false has written no pixel weight and no layer colour.
C9_ValidationPrecedesData ==
    [][/\ loadResult' = "true" => FileMatchesFilm
       /\ loadResult' = "false" => (weights_' = weights_ /\ image_layers_' = image_layers_)]_vars

\* a film that holds samples has rejected a file whose layer count differs,
\* and still holds them
C9_Witness ==
    /\ loadResult = "false"
    /\ file # NoFile
    /\ file[11] # Cardinality(layers_)
    /\ ~fresh
    /\ weights_ # EmptyWeights

(***************************************************************************)
(* Edge detection (built with HAVE_OPENCV only): the DebugFacesEdges layer *)
(* is computed from the normalised NormalGeom and ZDepthNorm layers.       *)
(***************************************************************************)
\* cv::BORDER_DEFAULT: an index outside 0..n-1 is mirrored at the border pixel
Reflect(i, k) == IF i < 0 THEN -i ELSE IF i >= k THEN 2 * (k - 1) - i ELSE i

\* cv::Laplacian with aperture 3: the kernel is [2 0 2; 0 -8 0; 2 0 2]
Laplacian(m, p) ==
    LET at(ox, oy) == m[<<Reflect(p[1] + ox, Width), Reflect(p[2] + oy, Height)>>]
    IN  2 * (at(-1, -1) + at(1, -1) + at(-1, 1) + at(1, 1)) - 8 * m[p]

\* edge_params.threshold_, in 1/Unit
edge_threshold == 100

\* image_mat of generateDebugFacesEdges: r, g, b of the normal, then the depth
ImageMat(imgs, k) ==
    [p \in Pixels |->
        IF k <= 3 THEN normalized(imgs["NormalGeom"][p], weights_[p])[k]
        ELSE normalized(imgs["ZDepthNorm"][p], weights_[p])[4]]

\* edgeImageDetection_global with thickness 1 and smoothness 0: the largest
\* Laplacian of the four images, made black or white at the threshold
EdgeValue(imgs, p) ==
    LET lap(k) == Laplacian(ImageMat(imgs, k), p)
        top == Max(Max(lap(1), lap(2)), Max(lap(3), lap(4)))
    IN  IF top > edge_threshold THEN Unit ELSE 0

\* line 1208: the image the edges are written to
debug_faces_edges_image_Normal == "NormalGeom"

debug_faces_edges_image == "DebugFacesEdges"

\* line 1239: debug_faces_edges_image->setColor(i, j, col_edge)
EdgeStore_Accumulate(old, col_edge) == ColAdd(old, col_edge)

EdgeStore(old, col_edge) == col_edge

\* generateDebugFacesEdges(0, width_, 0, height_, false): the layer images after it
generateDebugFacesEdges(imgs) ==
    IF have_opencv /\ "NormalGeom" \in DOMAIN imgs /\ "ZDepthNorm" \in DOMAIN imgs
    THEN LET edges == [p \in Pixels |-> EdgeValue(imgs, p)]
         IN  [imgs EXCEPT ![debug_faces_edges_image] =
                [p \in Pixels |->
                    EdgeStore(@[p], <<edges[p], edges[p], edges[p], Unit>>)]]
    ELSE imgs

(***************************************************************************)
(* flush                                                                   *)
(***************************************************************************)
FlushFlags == SUBSET {"RegularImage", "Densityimage"}

IndexLayers == {"ObjIndexAbs", "ObjIndexAutoAbs", "MatIndexAbs", "MatIndexAutoAbs"}

\* Rgba::ceil on a colour in 1/Unit
CeilUnit(v) == ((v + Unit - 1) \div Unit) * Unit

CeilColor(c) == <<CeilUnit(c[1]), CeilUnit(c[2]), CeilUnit(c[3]), CeilUnit(c[4])>>

\* line 614: density_factor, in 1/Unit
DensityFactor ==
    IF estimate_density_ /\ num_density_samples_ > 0
    THEN (Width * Height * Unit) \div num_density_samples_
    ELSE 0

\* lines 631-654: color_layers(layer).color_ for pixel p, in 1/Unit
FlushColor(l, p, flags, imgs) ==
    LET nrm == normalized(imgs[l][p], weights_[p])
        col == IF l = "AaSamples" THEN nrm
               ELSE IF l \in IndexLayers THEN CeilColor(nrm)
               ELSE IF "RegularImage" \in flags THEN nrm
               ELSE Black
        d == density_image_[p]
    IN  IF estimate_density_ /\ "Densityimage" \in flags /\ l = "Combined"
           /\ DensityFactor > 0
        THEN ColAdd(col, <<(d[1] * DensityFactor) \div Unit, (d[2] * DensityFactor) \div Unit,
                           (d[3] * DensityFactor) \div Unit, 0>>)
        ELSE col

\* lines 616-620: the layer images once flush has drawn the edge layer
FlushedImages ==
    IF "DebugFacesEdges" \in layers_
    THEN generateDebugFacesEdges(image_layers_)
    ELSE image_layers_

\* lines 627-661: what flush gives to the putPixel of the outputs
FlushSent(flags, imgs) ==
    [flags |-> flags,
     to |-> outputs_,
     colors |-> [l \in DOMAIN imgs |-> [p \in Pixels |-> FlushColor(l, p, flags, imgs)]]]

\* ImageFilm::flush; finished is render_control.finished()
flush(flags, finished) ==
    /\ finished => MutexFree(out_mutex_)
    /\ LET imgs == FlushedImages
       IN  /\ image_layers_' = imgs
           /\ sent' = FlushSent(flags, imgs)
           /\ IF finished /\ film_save
              THEN WriteFilm(imgs)
              ELSE UNCHANGED <<file, fileFrom, savedFilm>>
    /\ flushes' = Min(flushes + 1, 2)
    /\ loadResult' = "none"
    /\ UNCHANGED <<layers_, filt, clamp_samples_, weights_, log>>
    /\ UNCHANGED <<computer_node_, base_sampling_offset_, sampling_offset_, fresh>>
    /\ UNCHANGED <<have_opencv, film_save, estimate_density_, density_image_,
                   num_density_samples_>>

\* ImageFilm::addDensitySample
addDensitySample(c, s) ==
    /\ num_density_samples_ < MaxSamples
    /\ IF ~estimate_density_
       THEN UNCHANGED <<density_image_, num_density_samples_>>
       ELSE /\ density_image_' =
                 LET e == Extent(s, filt)
                 IN  [p \in Pixels |->
                        IF Inside(e, p)
                        THEN ColAdd(density_image_[p], ColMul(c, FilterWt(s, filt, p)))
                        ELSE density_image_[p]]
            /\ num_density_samples_' = num_density_samples_ + 1
    /\ flushes' = 0
    /\ UNCHANGED <<have_opencv, film_save, estimate_density_, sent>>
    /\ UNCHANGED <<filmVars, ckptVars>>

(***************************************************************************)
(* SpecFlush: samples and density samples are added, the film is flushed.  *)
(***************************************************************************)
\* the calls issued: one that hits a single pixel, one that hits its neighbours too
FlushSamples == {s \in Samples : s.x = cx_0_ /\ s.y = cy_0_}

\* the density samples issued
DensitySamples == {s \in FlushSamples : s.c = 2}

DensityColor(c) == <<c, 1, 0, 0>>

AddSampleFlush ==
    /\ \E s \in FlushSamples : addSample(s)
    /\ flushes' = 0
    /\ loadResult' = "none"
    /\ UNCHANGED <<have_opencv, film_save, estimate_density_, density_image_,
                   num_density_samples_, sent>>
    /\ UNCHANGED <<computer_node_, base_sampling_offset_, sampling_offset_, file, fileFrom,
                   savedFilm, fresh>>

AddDensitySampleFlush == \E s \in DensitySamples : addDensitySample(DensityColor(s.c), s)

FlushCall == \E flags \in FlushFlags, finished \in BOOLEAN : flush(flags, finished)

FlushFrame == UNCHANGED <<tileVars, concVars, otherVars>>

NextFlush ==
    \/ AddSampleFlush /\ FlushFrame
    \/ AddDensitySampleFlush /\ FlushFrame
    \/ FlushCall /\ FlushFrame

\* have_opencv, film_save, estimate_density_
FlushConfigs == {<<TRUE, FALSE, TRUE>>, <<FALSE, TRUE, FALSE>>}

InitFlush ==
    /\ InitTilesIdle
    /\ InitConcIdle
    /\ InitCkptIdle
    /\ InitAdaptIdle
    /\ InitSceneIdle
    /\ InitLateIdle
    /\ InitFilm({{"Combined", "AaSamples", "ObjIndexAbs", "NormalGeom", "ZDepthNorm",
                  "DebugFacesEdges"}}, {<<"Box", 3>>})
    /\ \E cfg \in FlushConfigs :
        have_opencv = cfg[1] /\ film_save = cfg[2] /\ estimate_density_ = cfg[3]
    /\ density_image_ = EmptyDensity
    /\ num_density_samples_ = 0
    /\ sent = NoneSent
    /\ flushes = 0

SpecFlush == InitFlush /\ [][NextFlush]_vars

\* a step is a flush call exactly when it counts one more flush since the last
\* sample (every other operation sets the count to 0)
FlushStep == flushes' >= 1

\* the layers whose image is computed from other layers when the film is output
EdgeLayers == {"DebugFacesEdges", "DebugObjectsEdges", "Toon"}

C6_FlushIdempotent ==
    [][(FlushStep /\ flushes >= 1 /\ sent'.flags = sent.flags)
          => (sent'.to = sent.to /\ sent'.colors = sent.colors)]_vars

\* two flushes in a row with the same flags, of a film that holds samples and
\* shows an edge
C6_Witness ==
    /\ flushes = 2
    /\ sent.flags = {"RegularImage", "Densityimage"}
    /\ sent.to = outputs_
    /\ have_opencv
    /\ num_density_samples_ > 0
    /\ weights_ # EmptyWeights
    /\ \E p \in Pixels : sent.colors["DebugFacesEdges"][p][1] > 0
    /\ \E p \in Pixels : sent.colors["Combined"][p] # Black

(***************************************************************************)
(* Adaptive sampling: the resample flags nextPass computes.                *)
(* Thresholds, brightness and colour differences are in 1/Unit.            *)
(***************************************************************************)
\* Rgb::col2Bri / abscol2Bri of a colour whose channels are not negative
abscol2Bri(c) == (2126 * Abs(c[1]) + 7152 * Abs(c[2]) + 722 * Abs(c[3])) \div (10 * Unit)

\* Rgb::colorDifference(color_2, use_rgb_components)
colorDifference(a, b, rgb) ==
    LET bri == Abs(abscol2Bri(b) - abscol2Bri(a))
    IN  IF rgb
        THEN Max(Max(bri, Abs(b[1] - a[1])), Max(Abs(b[2] - a[2]), Abs(b[3] - a[3])))
        ELSE bri

\* lines 305, 317-329: the Combined colour of a pixel, normalized by its weight
PixCol(w, img, p) == normalized(img["Combined"][p], w[p])

\* line 269: the film has a sampling factor image
sampling_factor_image_pass == "DebugSamplingFactor" \in layers_

\* lines 299-303: the pixel is left out (continue) when its sampling factor is 0
\* and the background is not resampled
SkippedPixel(w, img, p) ==
    /\ sampling_factor_image_pass
    /\ ~background_resampling_
    /\ (w[p] = 0 \/ img["DebugSamplingFactor"][p][1] = 0)

\* lines 276, 308-315: aa_thresh_scaled at pixel p (dark detection None or Linear)
aa_thresh_scaled(w, img, p) ==
    LET par == aa_noise_params_
        f == par.dark_threshold_factor_
        bri == abscol2Bri(PixCol(w, img, p))
    IN  IF par.dark_detection_type_ = "Linear" /\ f > 0
        THEN (par.threshold_ * ((Unit - f) + (bri * f) \div Unit)) \div Unit
        ELSE par.threshold_

\* the pixels the loops at 290-292 visit
Analyzed == {p \in Pixels : p[1] < Width - 1 /\ p[2] < Height - 1}

\* lines 317-332: the neighbours pixel p is compared with
Neighbours_NoDiagonal(p) == {<<p[1] + 1, p[2]>>, <<p[1], p[2] + 1>>}

Neighbours(p) ==
    {<<p[1] + 1, p[2]>>, <<p[1], p[2] + 1>>, <<p[1] + 1, p[2] + 1>>}
        \cup (IF p[1] > 0 THEN {<<p[1] - 1, p[2] + 1>>} ELSE {})

\* the comparison of lines 317, 321, 325, 329, 349, 361
Differs(w, img, p, q, thresh) ==
    colorDifference(PixCol(w, img, p), PixCol(w, img, q),
                    aa_noise_params_.detect_color_noise_) >= thresh

\* lines 334-382: the variance window around p is flagged as a whole
ClampTo(v, hi) == IF v < 0 THEN 0 ELSE IF v >= hi THEN hi - 1 ELSE v

VarianceHit(w, img, p) ==
    LET half == aa_noise_params_.variance_edge_size_ \div 2
        th == aa_thresh_scaled(w, img, p)
        vx == {xd \in (0 - half)..(half - 2) :
                  LET xi == ClampTo(p[1] + xd, Width - 1)
                  IN  Differs(w, img, <<xi, p[2]>>, <<xi + 1, p[2]>>, th)}
        vy == {yd \in (0 - half)..(half - 2) :
                  LET yi == ClampTo(p[2] + yd, Height - 1)
                  IN  Differs(w, img, <<p[1], yi>>, <<p[1], yi + 1>>, th)}
    IN  /\ aa_noise_params_.variance_pixels_ > 0
        /\ Cardinality(vx) + Cardinality(vy) >= aa_noise_params_.variance_pixels_

VarianceWindow(p) ==
    LET half == aa_noise_params_.variance_edge_size_ \div 2
    IN  {<<ClampTo(p[1] + xd, Width), ClampTo(p[2] + yd, Height)>> :
            xd \in (0 - half)..(half - 1), yd \in (0 - half)..(half - 1)}

\* lines 271-272: flags_.fill(n_pass_ == 0), with n_pass_ already incremented
FlagsFill(pass) == [p \in Pixels |-> pass = 0]

\* lines 282-384: the flags after the loops of the adaptive branch
AdaptiveFlags(fill, w, img) ==
    [q \in Pixels |->
        \/ (q \notin Analyzed /\ fill[q])
        \/ (q \in Analyzed /\ w[q] <= 0)
        \/ \E p \in Analyzed :
              /\ ~SkippedPixel(w, img, p)
              /\ \/ \E r \in Neighbours(p) :
                       Differs(w, img, p, r, aa_thresh_scaled(w, img, p)) /\ q \in {p, r}
                 \/ VarianceHit(w, img, p) /\ q \in VarianceWindow(p)]

\* line 280: the adaptive branch is taken
AdaptiveBranch(adaptive_aa) == adaptive_aa /\ aa_noise_params_.threshold_ > 0

\* lines 386-426: n_resample
CountFlags_Analyzed(f) == Cardinality({p \in Analyzed : f[p]})

CountFlags(f) == Cardinality({p \in Pixels : f[p]})

\* ImageFilm::doMoreSamples, x and y film-relative
doMoreSamples_FlagOnly(p) == flags_[p]

doMoreSamples(p) == aa_noise_params_.threshold_ <= 0 \/ flags_[p]

(***************************************************************************)
(* SpecAdapt: addSample calls and nextPass calls on an initialised film,   *)
(* one after the other.                                                    *)
(***************************************************************************)
\* ImageFilm::nextPass; the auto-save interval is not "pass", no mask is shown
\* flush's flags All
All == {"RegularImage", "Densityimage"}

\* line 254: the test of the images autosave, on the counter just incremented
ImagesAutoSaveDue ==
    /\ images_auto_save_params_.interval_type_ = "Pass"
    /\ images_auto_save_params_.pass_counter_ + 1 >= images_auto_save_params_.interval_passes_

\* line 262: the test of the film autosave
FilmAutoSaveDue ==
    /\ film_save
    /\ film_auto_save_.interval_type_ = "Pass"
    /\ film_auto_save_.pass_counter_ + 1 >= film_auto_save_.interval_passes_

\* nextPass lines 243-267: the pass counters go up; unless the call returns
\* at 246, a due images autosave flushes once for each image output and a
\* due film autosave saves the film and restarts its counter
AutoSave(skip_nrender_layer) ==
    LET active == ~skip_nrender_layer /\ in_progress
        doImages == active /\ ImagesAutoSaveDue /\ "image" \in outputs_
        doFilm == active /\ FilmAutoSaveDue
        imgs == IF doImages THEN FlushedImages ELSE image_layers_
    IN  /\ images_auto_save_params_' =
              [images_auto_save_params_ EXCEPT !.pass_counter_ = @ + 1]
        /\ film_auto_save_' =
              [film_auto_save_ EXCEPT !.pass_counter_ = IF doFilm THEN 0 ELSE @ + 1]
        /\ image_layers_' = imgs
        /\ IF doImages
           THEN sent' = FlushSent(All, imgs) /\ flushes' = Min(flushes + 1, 2)
           ELSE UNCHANGED <<sent, flushes>>
        /\ IF doFilm
           THEN WriteFilm(imgs)
           ELSE UNCHANGED <<file, fileFrom, savedFilm>>
        /\ passFlushed' = doImages
        /\ elapsed' = IF doImages THEN 0 ELSE elapsed + 1
        /\ UNCHANGED in_progress
        /\ UNCHANGED <<layers_, filt, clamp_samples_, weights_, log>>
        /\ UNCHANGED <<computer_node_, base_sampling_offset_, sampling_offset_, fresh,
                       loadResult>>
        /\ UNCHANGED <<have_opencv, film_save, estimate_density_, density_image_,
                       num_density_samples_>>

nextPass(adaptive_aa, skip_nrender_layer) ==
    /\ ctl = "idle"
    /\ MutexFree(splitter_mutex_)
    /\ next_area_' = NextPassArea(next_area_)
    /\ n_pass_' = n_pass_ + 1
    /\ IF skip_nrender_layer
       THEN /\ passRet' = [called |-> TRUE, adaptive_aa |-> adaptive_aa, skip |-> TRUE,
                           n_resample |-> 0]
            /\ UNCHANGED <<flags_, completed_cnt_>>
       ELSE LET fill == FlagsFill(n_pass_ + 1)
                f == IF AdaptiveBranch(adaptive_aa)
                     THEN AdaptiveFlags(fill, weights_, image_layers_)
                     ELSE fill
            IN  /\ flags_' = f
                /\ passRet' = [called |-> TRUE, adaptive_aa |-> adaptive_aa,
                               skip |-> FALSE,
                               n_resample |-> IF AdaptiveBranch(adaptive_aa)
                                              THEN CountFlags(f)
                                              ELSE Height * Width]
                /\ completed_cnt_' = 0
    /\ UNCHANGED <<split_, interactive, started, area_cnt_, abort_, outputs_,
                   splitter_mutex_, out_mutex_, pc, n, area, ret, handed, lateCall,
                   putFailed>>
    /\ AutoSave(skip_nrender_layer)
    /\ UNCHANGED <<aa_noise_params_, background_resampling_, ctl>>
    /\ UNCHANGED <<concVars, sceneVars, loadVars, densVars, moreVars>>

\* the calls issued: samples in the film's first two columns and rows
AdaptSamples == {s \in Samples : s.x <= cx_0_ + 1 /\ s.y <= cy_0_ + 1}

AddSampleAdapt ==
    /\ \E s \in AdaptSamples : addSample(s)
    /\ UNCHANGED <<tileVars, concVars, extraVars>>

NextAdapt ==
    \/ AddSampleAdapt
    \/ \E adaptive_aa, skip \in BOOLEAN : n_pass_ <= MaxPasses /\ nextPass(adaptive_aa, skip)

\* the films modelled: noise parameters, background resampling, layers, and
\* what the flags hold after the constructor
AdaptConfigs ==
    {<<DefaultAaNoiseParams, TRUE, {"Combined"}, FALSE>>,
     <<[DefaultAaNoiseParams EXCEPT !.threshold_ = Unit], TRUE, {"Combined"}, TRUE>>,
     <<[DefaultAaNoiseParams EXCEPT !.threshold_ = Unit, !.detect_color_noise_ = TRUE],
       FALSE, {"Combined", "DebugSamplingFactor"}, FALSE>>,
     <<[DefaultAaNoiseParams EXCEPT !.threshold_ = Unit, !.dark_detection_type_ = "Linear",
                                    !.dark_threshold_factor_ = Unit \div 2,
                                    !.variance_edge_size_ = 2, !.variance_pixels_ = 2],
       TRUE, {"Combined"}, FALSE>>}

InitAdapt ==
    /\ InitTilesIdle
    /\ InitConcIdle
    /\ InitCkptIdle
    /\ InitFlushIdle
    /\ InitSceneIdle
    /\ InitLateIdle
    /\ \E cfg \in AdaptConfigs :
          /\ aa_noise_params_ = cfg[1]
          /\ background_resampling_ = cfg[2]
          /\ layers_ = cfg[3]
          /\ flags_ = [p \in Pixels |-> cfg[4]]
    /\ filt = "Box"
    /\ clamp_samples_ = 0
    /\ weights_ = EmptyWeights
    /\ image_layers_ = EmptyImages(layers_)
    /\ log = <<>>
    /\ passRet = NoPass
    /\ ctl = "idle"

SpecAdapt == InitAdapt /\ [][NextAdapt]_vars

\* a step is a nextPass call whose layer is not skipped
PassStep == n_pass_' = n_pass_ + 1 /\ ~passRet'.skip

\* C12: full resampling at threshold 0. With a noise threshold <= 0,
\* doMoreSamples is true for every pixel of the film at any time, and every
\* nextPass call whose layer is not skipped, adaptive or not, returns
\* width * height.
C12_FullResamplingAtZero ==
    aa_noise_params_.threshold_ <= 0 =>
        /\ \A p \in Pixels : doMoreSamples(p)
        /\ (passRet.called /\ ~passRet.skip) => passRet.n_resample = Width * Height

\* an adaptive nextPass has returned on a film with threshold 0 that holds
\* samples and whose flags are clear
C12_Witness ==
    /\ aa_noise_params_.threshold_ <= 0
    /\ passRet.called /\ ~passRet.skip /\ passRet.adaptive_aa
    /\ \E p \in Pixels : weights_[p] > 0 /\ ~flags_[p]

\* C13: full resampling when adaptive sampling is disabled. After a nextPass
\* call with adaptive_aa = false whose layer is not skipped, whatever the
\* threshold, doMoreSamples is true for every pixel and the count returned
\* is width * height.
C13_FullResamplingNonAdaptive ==
    [][(PassStep /\ ~passRet'.adaptive_aa) =>
          /\ passRet'.n_resample = Width * Height
          /\ \A p \in Pixels : aa_noise_params_.threshold_ <= 0 \/ flags_'[p]]_vars

\* C14: unsampled pixels are always flagged. After an adaptive nextPass with
\* a positive threshold every pixel whose weight is zero has its flag set.
C14_UnsampledFlagged ==
    [][(PassStep /\ passRet'.adaptive_aa /\ aa_noise_params_.threshold_ > 0) =>
          \A p \in Pixels : weights_[p] = 0 => flags_'[p]]_vars

\* a nextPass call that takes the adaptive branch
AdaptiveStep == PassStep /\ passRet'.adaptive_aa /\ aa_noise_params_.threshold_ > 0

\* the pixels of the 2x2 neighbourhood whose corner is p
Block(p) == {q \in Pixels : q[1] \in {p[1], p[1] + 1} /\ q[2] \in {p[2], p[2] + 1}}

C16_CountMatchesFlags ==
    (passRet.called /\ ~passRet.skip /\ passRet.adaptive_aa
        /\ aa_noise_params_.threshold_ > 0) =>
        /\ passRet.n_resample = Cardinality({p \in Pixels : flags_[p]})
        /\ passRet.n_resample = Cardinality({p \in Pixels : doMoreSamples(p)})
        /\ passRet.n_resample \in 0..(Width * Height)

\* an adaptive nextPass has flagged some pixels, one of them in the last
\* column, and left others clear; samples of the next pass have arrived
C16_Witness ==
    /\ passRet.called /\ ~passRet.skip /\ passRet.adaptive_aa
    /\ aa_noise_params_.threshold_ > 0
    /\ passRet.n_resample \in 1..(Width * Height - 1)
    /\ \E p \in Pixels : p[1] = Width - 1 /\ flags_[p]
    /\ Len(log) = MaxSamples

(***************************************************************************)
(* SpecBarrier: the pass loop. The control thread starts the workers of a  *)
(* pass, each worker issues addSample calls and ends, and the control      *)
(* thread calls nextPass once it has joined them. nextPass reads weights_  *)
(* and the Combined layer without image_mutex_ (lines 290-385).            *)
(***************************************************************************)
\* the control thread starts the workers of a pass; it is not inside nextPass
PassStart ==
    /\ ctl = "idle"
    /\ \A t \in Threads : pc[t] \in {"off", "done"}
    /\ pc' = [t \in Threads |-> "idle"]
    /\ UNCHANGED <<tileVarsButPc, filmVars, restVars>>

\* a worker has no tile left and ends
WorkerExit(t) ==
    /\ pc[t] = "idle"
    /\ pc' = [pc EXCEPT ![t] = "done"]
    /\ UNCHANGED <<tileVarsButPc, filmVars, restVars>>

\* nextPass lines 239-280: called by the control thread after the pass
NextPassBegin(adaptive_aa, skip_nrender_layer) ==
    /\ ctl = "idle"
    /\ started
    /\ Rendezvous
    /\ n_pass_ <= MaxPasses
    /\ MutexFree(splitter_mutex_)
    /\ next_area_' = NextPassArea(next_area_)
    /\ n_pass_' = n_pass_ + 1
    /\ IF skip_nrender_layer
       THEN /\ passRet' = [called |-> TRUE, adaptive_aa |-> adaptive_aa, skip |-> TRUE,
                           n_resample |-> 0]
            /\ UNCHANGED <<flags_, ctl>>
       ELSE /\ passRet' = [called |-> FALSE, adaptive_aa |-> adaptive_aa, skip |-> FALSE,
                           n_resample |-> 0]
            /\ flags_' = FlagsFill(n_pass_ + 1)
            /\ ctl' = "np_read"
    /\ AutoSave(skip_nrender_layer)
    /\ UNCHANGED <<split_, interactive, started, area_cnt_, completed_cnt_, abort_,
                   outputs_, splitter_mutex_, out_mutex_, pc, n, area, ret, handed,
                   lateCall, putFailed>>
    /\ UNCHANGED <<aa_noise_params_, background_resampling_>>
    /\ UNCHANGED <<concVars, sceneVars, loadVars, densVars, moreVars>>

\* lines 280-385: the buffers are read and the flags set
NextPassRead ==
    /\ ctl = "np_read"
    /\ flags_' = IF AdaptiveBranch(passRet.adaptive_aa)
                 THEN AdaptiveFlags(flags_, weights_, image_layers_)
                 ELSE flags_
    /\ ctl' = "np_count"
    /\ UNCHANGED <<aa_noise_params_, background_resampling_, passRet>>
    /\ UNCHANGED <<tileVars, filmVars, concVars, ckptVars, flushVars, sceneVars, lateVars>>

\* lines 386-450: the flags are counted, the count is returned
NextPassEnd ==
    /\ ctl = "np_count"
    /\ passRet' = [passRet EXCEPT !.called = TRUE,
                                  !.n_resample = IF AdaptiveBranch(passRet.adaptive_aa)
                                                 THEN CountFlags(flags_)
                                                 ELSE Height * Width]
    /\ completed_cnt_' = 0
    /\ ctl' = "idle"
    /\ UNCHANGED <<split_, interactive, started, area_cnt_, next_area_, n_pass_, abort_,
                   outputs_, splitter_mutex_, out_mutex_, pc, n, area, ret, handed,
                   lateCall, putFailed>>
    /\ UNCHANGED <<aa_noise_params_, background_resampling_, flags_>>
    /\ UNCHANGED <<filmVars, concVars, ckptVars, flushVars, sceneVars, lateVars>>

\* the calls the workers issue: one pixel each
BarrierSamples == {s \in ConcSamples : s.d = 250}

NextBarrier ==
    \/ PassStart
    \/ \E adaptive_aa, skip \in BOOLEAN : NextPassBegin(adaptive_aa, skip)
    \/ NextPassRead
    \/ NextPassEnd
    \/ \E t \in Threads :
        \/ WorkerExit(t)
        \/ (\E s \in BarrierSamples : AddSampleBegin(t, s)) /\ ConcFrame
        \/ AddSampleLock(t) /\ ConcFrame
        \/ AddSampleLoadWeight(t) /\ ConcFrame
        \/ AddSampleStoreWeight(t) /\ ConcFrame
        \/ AddSampleLoadColor(t) /\ ConcFrame
        \/ AddSampleStoreColor(t) /\ ConcFrame
        \/ AddSampleUnlock(t) /\ ConcFrame

InitBarrier ==
    /\ InitTilesIdle
    /\ InitConcIdle
    /\ InitCkptIdle
    /\ InitFlushIdle
    /\ InitSceneIdle
    /\ InitLateIdle
    /\ InitFilm({{"Combined"}}, {<<"Box", 0>>})
    /\ aa_noise_params_ = [DefaultAaNoiseParams EXCEPT !.threshold_ = Unit]
    /\ background_resampling_ = TRUE
    /\ flags_ = [p \in Pixels |-> FALSE]
    /\ passRet = NoPass
    /\ ctl = "idle"

SpecBarrier == InitBarrier /\ [][NextBarrier]_vars

\* C11: pass barrier. While the control thread is inside nextPass, before and
\* after it reads weights_ and the Combined layer, no worker is inside an
\* addSample call or about to issue one, and the buffers hold every call
\* issued so far in full.
C11_PassBarrier ==
    ctl # "idle" =>
        /\ \A t \in Threads : pc[t] \in {"off", "done"}
        /\ \A p \in Pixels :
              /\ weights_[p] = SumWeights(log, p)
              /\ image_layers_["Combined"][p] = SumColors(log, "Combined", p)

\* an adaptive nextPass is reading the buffers after a pass in which the
\* workers added samples
C11_Witness ==
    /\ ctl = "np_read"
    /\ passRet.adaptive_aa
    /\ Len(log) = MaxSamples
    /\ \A t \in Threads : pc[t] = "done"

(***************************************************************************)
(* SpecScene: Scene::setupScene and Scene::render (scene.cc).              *)
(***************************************************************************)
\* the integrators the scene holds, by name, with their types
integrators_ == [surf |-> "Surface", vol |-> "Volume"]

\* the names a parameter map may give; "" when the parameter is absent
IntegratorNames == {"", "nope", "surf", "vol"}

\* Scene::getIntegrator (findMapItem): nullptr when the name is not in the map
getIntegrator(name) == IF name \in DOMAIN integrators_ THEN name ELSE "null"

\* what volume_integrator->getType() on a null pointer (line 676) can do: the
\* process dies there; the read yields a type that is not Volume; or it yields
\* Volume and the process dies in setVolIntegrator (line 195)
NullDeref == {"dies", "other_type", "volume_type"}

\* what the rest of the model leaves alone in a step of the scene
SceneFrame ==
    UNCHANGED <<tileVars, filmVars, concVars, ckptVars, flushVars, adaptVars, lateVars>>

\* Scene::setupScene, lines 653-752
setupScene(integrator_name, volintegrator_name) ==
    /\ rpc = "idle"
    /\ setupRet # "crash"
    /\ LET integrator == getIntegrator(integrator_name)
           volume_integrator == getIntegrator(volintegrator_name)
           fails == /\ setupRet' = "false"
                    /\ UNCHANGED <<surf_integrator_, vol_integrator_, image_film_, changes_>>
       IN  IF integrator_name = "" THEN fails
           ELSE IF integrator = "null" THEN fails
           ELSE IF integrators_[integrator] # "Surface" THEN fails
           ELSE IF volintegrator_name = "" THEN fails
           ELSE IF volume_integrator = "null"
           THEN \E o \in NullDeref :
                   CASE o = "dies" ->
                          /\ setupRet' = "crash"
                          /\ UNCHANGED <<surf_integrator_, vol_integrator_, image_film_,
                                         changes_>>
                     [] o = "other_type" -> fails
                     [] o = "volume_type" ->
                          /\ image_film_' = TRUE
                          /\ surf_integrator_' = integrator
                          /\ vol_integrator_' = "null"
                          /\ changes_' = TRUE
                          /\ setupRet' = "crash"
           ELSE IF integrators_[volume_integrator] # "Volume" THEN fails
           ELSE /\ image_film_' = TRUE
                /\ surf_integrator_' = integrator
                /\ vol_integrator_' = volume_integrator
                /\ changes_' = TRUE
                /\ setupRet' = "true"
    /\ UNCHANGED <<lights_, render_views_, rpc, rview, events, renderRet>>

\* RenderView::init: the camera is found and the view resolves to a light
RenderViewInit(v) ==
    LET selected == IF v.light_names = {} THEN lights_ ELSE v.light_names \cap lights_
    IN  v.camera /\ selected # {}

\* the test if(!success) at lines 237, 243, 250
Failed_Ignored(success) == FALSE

Failed(success) == ~success

\* the loop at 232 goes to the next view, or render returns true (268-269)
NextView ==
    IF rview < Len(render_views_)
    THEN /\ rview' = rview + 1
         /\ rpc' = "view_init"
         /\ UNCHANGED <<changes_, renderRet>>
    ELSE /\ rview' = 0
         /\ rpc' = "idle"
         /\ changes_' = FALSE
         /\ renderRet' = "true"

\* return false from inside the loop
ReturnFalse ==
    /\ rview' = 0
    /\ rpc' = "idle"
    /\ renderRet' = "false"
    /\ UNCHANGED changes_

\* Scene::render, lines 211-232 and 263-267
RenderBegin ==
    /\ rpc = "idle"
    /\ setupRet # "crash"
    /\ events' = <<>>
    /\ IF ~image_film_ \/ surf_integrator_ = "null" \/ ~changes_
       THEN ReturnFalse
       ELSE /\ rview' = 0
            /\ rpc' = "next_view"
            /\ renderRet' = "none"
            /\ UNCHANGED changes_
    /\ UNCHANGED <<surf_integrator_, vol_integrator_, image_film_, lights_,
                   render_views_, setupRet>>

\* the loop header at 232
RenderNextView ==
    /\ rpc = "next_view"
    /\ NextView
    /\ UNCHANGED <<surf_integrator_, vol_integrator_, image_film_, lights_,
                   render_views_, setupRet, events>>

\* lines 236-241: the view is initialised, or skipped with a warning
RenderViewStep ==
    /\ rpc = "view_init"
    /\ LET success == RenderViewInit(render_views_[rview])
       IN  /\ events' = Append(events, <<rview, IF success THEN "init_ok" ELSE "init_fail">>)
           /\ rpc' = IF Failed(success) THEN "next_view" ELSE "pre_surf"
    /\ UNCHANGED <<surf_integrator_, vol_integrator_, image_film_, changes_, lights_,
                   render_views_, setupRet, rview, renderRet>>

\* line 242, left operand: surf_integrator_->preprocess
PreprocessSurf(ok) ==
    /\ rpc = "pre_surf"
    /\ events' = Append(events, <<rview, IF ok THEN "pre_surf_ok" ELSE "pre_surf_fail">>)
    /\ IF Failed(ok)
       THEN ReturnFalse
       ELSE /\ rpc' = "pre_vol"
            /\ UNCHANGED <<changes_, rview, renderRet>>
    /\ UNCHANGED <<surf_integrator_, vol_integrator_, image_film_, lights_,
                   render_views_, setupRet>>

\* line 242, right operand: vol_integrator_->preprocess
PreprocessVol(ok) ==
    /\ rpc = "pre_vol"
    /\ IF vol_integrator_ = "null"
       THEN /\ rpc' = "crashed"
            /\ UNCHANGED <<events, changes_, rview, renderRet>>
       ELSE /\ events' = Append(events,
                                <<rview, IF ok THEN "pre_vol_ok" ELSE "pre_vol_fail">>)
            /\ IF Failed(ok)
               THEN ReturnFalse
               ELSE /\ rpc' = "render"
                    /\ UNCHANGED <<changes_, rview, renderRet>>
    /\ UNCHANGED <<surf_integrator_, vol_integrator_, image_film_, lights_,
                   render_views_, setupRet>>

\* lines 248-254: surf_integrator_->render
IntegratorRender(ok) ==
    /\ rpc = "render"
    /\ events' = Append(events, <<rview, IF ok THEN "render_ok" ELSE "render_fail">>)
    /\ IF Failed(ok)
       THEN ReturnFalse
       ELSE /\ rpc' = "flush"
            /\ UNCHANGED <<changes_, rview, renderRet>>
    /\ UNCHANGED <<surf_integrator_, vol_integrator_, image_film_, lights_,
                   render_views_, setupRet>>

\* lines 255-260: image_film_->flush, then the next view
RenderFlush ==
    /\ rpc = "flush"
    /\ events' = Append(events, <<rview, "flush">>)
    /\ rpc' = "next_view"
    /\ UNCHANGED <<surf_integrator_, vol_integrator_, image_film_, changes_, lights_,
                   render_views_, setupRet, rview, renderRet>>

NextScene ==
    \/ (\E i, v \in IntegratorNames : setupScene(i, v)) /\ SceneFrame
    \/ RenderBegin /\ SceneFrame
    \/ RenderNextView /\ SceneFrame
    \/ RenderViewStep /\ SceneFrame
    \/ (\E ok \in BOOLEAN : PreprocessSurf(ok)) /\ SceneFrame
    \/ (\E ok \in BOOLEAN : PreprocessVol(ok)) /\ SceneFrame
    \/ (\E ok \in BOOLEAN : IntegratorRender(ok)) /\ SceneFrame
    \/ RenderFlush /\ SceneFrame

\* the render views a scene may hold: camera found or not, lights named or not
ViewChoices ==
    {[camera |-> TRUE, light_names |-> {}], [camera |-> FALSE, light_names |-> {}],
     [camera |-> TRUE, light_names |-> {"lamp"}], [camera |-> TRUE, light_names |-> {"sun"}]}

InitScene ==
    /\ InitTilesIdle
    /\ InitConcIdle
    /\ InitCkptIdle
    /\ InitFlushIdle
    /\ InitAdaptIdle
    /\ InitLateIdle
    /\ InitFilm({{"Combined"}}, {<<"Box", 0>>})
    /\ surf_integrator_ = "null"
    /\ vol_integrator_ = "null"
    /\ image_film_ = FALSE
    /\ changes_ = FALSE
    /\ lights_ \in {{}, {"sun"}}
    /\ render_views_ \in [1..2 -> ViewChoices]
    /\ setupRet = "none"
    /\ rpc = "idle"
    /\ rview = 0
    /\ events = <<>>
    /\ renderRet = "none"

SpecScene == InitScene /\ [][NextScene]_vars

\* C18: build before use. In a render call, the surface integrator's render is
\* invoked for a view only after the surface integrator's preprocess and then
\* the volume integrator's preprocess have returned true for that view; when a
\* preprocess returns false nothing more is done for any view and render
\* returns false.
C18_BuildBeforeUse ==
    \A k \in DOMAIN events :
        /\ events[k][2] \in {"render_ok", "render_fail"} =>
              \E i, j \in DOMAIN events :
                  /\ i < j /\ j < k
                  /\ events[i] = <<events[k][1], "pre_surf_ok">>
                  /\ events[j] = <<events[k][1], "pre_vol_ok">>
        /\ events[k][2] \in {"pre_surf_fail", "pre_vol_fail"} =>
              /\ k = Len(events)
              /\ rpc = "idle"
              /\ renderRet = "false"

\* the second view is rendered after the first was rendered and flushed
C18_Witness ==
    /\ \E k \in DOMAIN events : events[k] = <<2, "render_ok">>
    /\ \E k \in DOMAIN events : events[k] = <<1, "flush">>

\* C19: a view without camera or lights is a reported failure. When render
\* has returned and a view could not be initialised in it, render returned
\* false, and nothing was preprocessed, rendered or flushed for that view.
C19_SetupFailureReported ==
    (rpc = "idle" /\ renderRet # "none") =>
        \A k \in DOMAIN events :
            events[k][2] = "init_fail" =>
                /\ renderRet = "false"
                /\ \A j \in DOMAIN events :
                      events[j][1] = events[k][1] => j = k

\* the names for which setupScene must fail
BadIntegratorNames(i, v) ==
    \/ i = "" \/ getIntegrator(i) = "null"
    \/ v = "" \/ getIntegrator(v) = "null"
    \/ (getIntegrator(i) # "null" /\ integrators_[getIntegrator(i)] # "Surface")
    \/ (getIntegrator(v) # "null" /\ integrators_[getIntegrator(v)] # "Volume")

\* C20: a missing integrator is a setup failure. Whenever the surface or the
\* volume integrator name is absent, names no integrator of the scene or
\* names one of the wrong type, setupScene returns false and leaves the
\* integrators of the scene as they were.
C20_MissingIntegrator ==
    [][\A i, v \in IntegratorNames :
          (BadIntegratorNames(i, v) /\ setupScene(i, v)) =>
              /\ setupRet' = "false"
              /\ surf_integrator_' = surf_integrator_
              /\ vol_integrator_' = vol_integrator_]_vars

(***************************************************************************)
(* SpecLoadAll: a film receives samples and is saved; the folder holds     *)
(* film files, some of them written elsewhere; imageFilmLoadAllInFolder    *)
(* adds them to the film.                                                  *)
(***************************************************************************)
\* lines 1026-1027: a film built by the constructor that has run imageFilmLoad
\* on the file f (NoFile: the file does not open)
loaded_film(f) ==
    LET headerOk == f # NoFile /\ f[1] = FilmHeader
        valid == headerOk /\ LoadValidated(f)
    IN  [ok |-> valid,
         base |-> IF headerOk THEN f[3] ELSE 0,
         offset |-> IF headerOk THEN f[4] ELSE 0,
         weights |-> IF valid THEN [p \in Pixels |-> ReadWeight(f, p[1], p[2])]
                     ELSE EmptyWeights,
         images |-> IF valid
                    THEN [l \in DOMAIN image_layers_ |->
                            [p \in Pixels |-> ReadColor(f, LayerPos(l), p[1], p[2])]]
                    ELSE EmptyImages(layers_)]

\* lines 1027-1054: one turn of the loop over the film files. acc is the film
\* (weights, images, offsets) and any_film_loaded
LoadOne_IntoThis(acc, lf) ==
    IF ~lf.ok THEN [acc EXCEPT !.base = lf.base, !.offset = lf.offset]
    ELSE [weights |-> [p \in Pixels |-> acc.weights[p] + lf.weights[p]],
          images |-> [l \in DOMAIN acc.images |->
                        [p \in Pixels |-> ColAdd(acc.images[l][p], lf.images[l][p])]],
          offset |-> lf.offset,
          base |-> lf.base,
          any |-> TRUE]

LoadOne(acc, lf) ==
    IF ~lf.ok THEN acc
    ELSE [weights |-> [p \in Pixels |-> acc.weights[p] + lf.weights[p]],
          images |-> [l \in DOMAIN acc.images |->
                        [p \in Pixels |-> ColAdd(acc.images[l][p], lf.images[l][p])]],
          offset |-> IF acc.offset < lf.offset THEN lf.offset ELSE acc.offset,
          base |-> IF acc.base < lf.base THEN lf.base ELSE acc.base,
          any |-> TRUE]

\* lines 1023-1056: the loop
RECURSIVE LoadLoop(_, _)
LoadLoop(acc, files) ==
    IF files = <<>> THEN acc
    ELSE LoadLoop(LoadOne(acc, loaded_film(Head(files))), Tail(files))

\* ImageFilm::imageFilmLoadAllInFolder, from the sorted list of film files on
imageFilmLoadAllInFolder ==
    LET acc == LoadLoop([weights |-> weights_, images |-> image_layers_,
                         offset |-> sampling_offset_, base |-> base_sampling_offset_,
                         any |-> FALSE], film_files)
    IN  /\ loadCalls < MaxLoads
        /\ weights_' = acc.weights
        /\ image_layers_' = acc.images
        /\ sampling_offset_' = acc.offset
        /\ base_sampling_offset_' = acc.base
        /\ resumed' = (resumed \/ acc.any)
        /\ beforeLoad' = [weights |-> weights_, images |-> image_layers_,
                          node |-> computer_node_, base |-> base_sampling_offset_,
                          offset |-> sampling_offset_, resumed |-> resumed]
        /\ loadCalls' = loadCalls + 1
        /\ loadResult' = "all"
        /\ fresh' = FALSE
        /\ UNCHANGED <<computer_node_, file, fileFrom, savedFilm, film_files>>
        /\ UNCHANGED <<layers_, filt, clamp_samples_, log>>

\* the film files a folder may hold: the one this film saved, files written
\* elsewhere (one that matches the film, ones that differ from it), and a
\* file that no longer opens
FolderKinds == {"ok", "width"}

FolderChoices == {ForeignTokens(kind) : kind \in FolderKinds} \cup {file, NoFile}

\* the folder is listed once for each call of imageFilmLoadAllInFolder
Relisted == film_files = NoFolder \/ loadResult = "all"

\* the film is filled and set up before its first save
Unsaved == file = NoFile

\* File::listFiles and the sort at line 1022
ListFiles ==
    /\ loadCalls < MaxLoads
    /\ Relisted
    /\ \E k \in 0..MaxFiles : film_files' \in [1..k -> FolderChoices]
    /\ UNCHANGED <<resumed, beforeLoad, loadCalls>>
    /\ loadResult' = "none"
    /\ UNCHANGED <<computer_node_, base_sampling_offset_, sampling_offset_, file, fileFrom,
                   savedFilm, fresh>>
    /\ UNCHANGED filmVars

LoadFrame ==
    UNCHANGED <<tileVars, concVars, flushVars, adaptVars, sceneVars, densVars, autoVars,
                moreVars>>

\* the calls issued before the save: samples that fill the film unevenly
LoadSamples == {s \in CkptSamples : s.c = 2}

AddSampleLoad ==
    /\ \E s \in LoadSamples : addSample(s)
    /\ fresh' = FALSE
    /\ loadResult' = "none"
    /\ UNCHANGED <<computer_node_, base_sampling_offset_, sampling_offset_, file, fileFrom,
                   savedFilm>>

NextLoadAll ==
    \/ Unsaved /\ AddSampleLoad /\ CkptFrame
    \/ Unsaved /\ setupFilm /\ CkptFrame
    \/ Relisted /\ imageFilmSave /\ CkptFrame
    \/ ListFiles /\ LoadFrame
    \/ imageFilmLoadAllInFolder /\ LoadFrame

InitLoadAll ==
    /\ InitTilesIdle
    /\ InitConcIdle
    /\ InitExtraIdle
    /\ InitFilm({{"Combined", "ObjIndexAbs"}}, {<<"Box", 0>>})

SpecLoadAll == InitLoadAll /\ [][NextLoadAll]_vars

\* the files of the folder that open, begin with the header and were written
\* by a film of this film's geometry and layer count
FileLoads(f) ==
    /\ f # NoFile
    /\ f[1] = "YAF_FILMv4_0_0"
    /\ f[5] = Width /\ f[6] = Height
    /\ f[7] = cx_0_ /\ f[8] = cx_0_ + Width
    /\ f[9] = cy_0_ /\ f[10] = cy_0_ + Height
    /\ f[11] = Cardinality(layers_)

LoadedFiles == {k \in 1..Len(film_files) : FileLoads(film_files[k])}

\* the sum of g(film_files[k]) over the files k of S
RECURSIVE SumFiles(_, _, _)
SumFiles(S, g(_), zero) ==
    IF S = {} THEN zero
    ELSE LET k == CHOOSE j \in S : TRUE
         IN  g(film_files[k]) + SumFiles(S \ {k}, g, zero)

\* the largest of v and the field at position i of the files of S
MaxOver(v, S, i) ==
    CHOOSE m \in {v} \cup {film_files[k][i] : k \in S} :
        \A o \in {v} \cup {film_files[k][i] : k \in S} : o <= m

\* C21: checkpoint load failures are skipped, successes are summed. After
\* imageFilmLoadAllInFolder every pixel's weight and every layer's colour are
\* the values before the call plus the sums over the files that load; a file
\* that fails contributes nothing and the files after it are still read; the
\* sampling offsets are the largest of the previous and the loaded ones; the
\* render is marked resumed exactly when a file loaded (a render that an
\* earlier call marked stays marked); the computer node is the film's own.
C21_LoadAllSums ==
    loadResult = "all" =>
        /\ \A p \in Pixels :
            /\ weights_[p] = beforeLoad.weights[p]
                 + SumFiles(LoadedFiles, LAMBDA f : ReadWeight(f, p[1], p[2]), 0)
            /\ \A l \in layers_ : \A ch \in 1..4 :
                 image_layers_[l][p][ch] = beforeLoad.images[l][p][ch]
                   + SumFiles(LoadedFiles,
                              LAMBDA f : ReadColor(f, LayerPos(l), p[1], p[2])[ch], 0)
        /\ sampling_offset_ = MaxOver(beforeLoad.offset, LoadedFiles, 4)
        /\ base_sampling_offset_ = MaxOver(beforeLoad.base, LoadedFiles, 3)
        /\ computer_node_ = beforeLoad.node
        /\ resumed = (beforeLoad.resumed \/ LoadedFiles # {})

\* a film that holds samples has read a folder whose first file fails (its
\* header is good, its width is not the film's) and whose second file loads
C21_Witness ==
    /\ loadResult = "all"
    /\ Len(film_files) = 2
    /\ film_files[1] # NoFile /\ film_files[1][1] = FilmHeader
    /\ ~FileLoads(film_files[1])
    /\ FileLoads(film_files[2])
    /\ \E p \in Pixels : beforeLoad.weights[p] > 0
    /\ ~beforeLoad.resumed /\ resumed

(***************************************************************************)
(* SpecArea: the areas nextArea delivers, with their bounds. Each worker   *)
(* calls nextArea, renders what it got and calls finishArea, until         *)
(* nextArea returns false.                                                 *)
(***************************************************************************)
\* ImageSplitter::getArea(n, a): the bounds of tile n. Tiles of tile_size_
\* pixels in rows from the film's corner, cut at the film's edges
SplitterRegion(k) ==
    LET nx == CeilDiv(Width, TileSize)
        col == k % nx
        row == k \div nx
    IN  [x_ |-> cx_0_ + col * TileSize, y_ |-> cy_0_ + row * TileSize,
         w_ |-> Min(TileSize, Width - col * TileSize),
         h_ |-> Min(TileSize, Height - row * TileSize)]

\* lines 489-492: the whole image
WholeRegion == [x_ |-> cx_0_, y_ |-> cy_0_, w_ |-> Width, h_ |-> Height]

\* line 457: int ifilterw = (int) ceil(filterw_)
ifilterw_Truncated(f) == FilterW(f) \div Unit

ifilterw(f) == CeilDiv(FilterW(f), Unit)

\* lines 468-471 and 493-496: the area with its safe region
RenderArea(r, c) ==
    [x_ |-> r.x_, y_ |-> r.y_, w_ |-> r.w_, h_ |-> r.h_,
     sx_0_ |-> r.x_ + c, sx_1_ |-> r.x_ + r.w_ - c,
     sy_0_ |-> r.y_ + c, sy_1_ |-> r.y_ + r.h_ - c]

\* the area of a worker that has not been given one
NoRenderArea == RenderArea([x_ |-> 0, y_ |-> 0, w_ |-> 0, h_ |-> 0], 0)

\* ImageFilm::nextArea, the call as a whole
nextArea(t) ==
    /\ pc[t] = "start"
    /\ lateCall' = [lateCall EXCEPT ![t] = abort_]
    /\ IF abort_
       THEN /\ ret' = [ret EXCEPT ![t] = FALSE]
            /\ UNCHANGED <<next_area_, area_cnt_, area, n, handed>>
       ELSE IF split_
       THEN /\ n' = [n EXCEPT ![t] = next_area_]
            /\ next_area_' = next_area_ + 1
            /\ UNCHANGED area_cnt_
            /\ IF getArea(next_area_)
               THEN /\ area' = [area EXCEPT ![t] =
                                  RenderArea(SplitterRegion(next_area_), ifilterw(filt))]
                    /\ handed' = [handed EXCEPT ![next_area_] = @ + 1]
                    /\ ret' = [ret EXCEPT ![t] = TRUE]
               ELSE /\ ret' = [ret EXCEPT ![t] = FALSE]
                    /\ UNCHANGED <<area, handed>>
       ELSE IF area_cnt_ # 0
       THEN /\ ret' = [ret EXCEPT ![t] = FALSE]
            /\ UNCHANGED <<next_area_, area_cnt_, area, n, handed>>
       ELSE /\ area' = [area EXCEPT ![t] = RenderArea(WholeRegion, ifilterw(filt))]
            /\ area_cnt_' = area_cnt_ + 1
            /\ ret' = [ret EXCEPT ![t] = TRUE]
            /\ UNCHANGED <<next_area_, n, handed>>
    /\ pc' = [pc EXCEPT ![t] = IF ret'[t] THEN "render" ELSE "done"]
    /\ UNCHANGED <<split_, interactive, started, completed_cnt_, n_pass_, abort_, outputs_,
                   splitter_mutex_, out_mutex_, putFailed>>
    /\ UNCHANGED <<filmVars, restVars>>

\* ImageFilm::finishArea, the call as a whole: a putPixel that returns false
\* sets abort_ (550); the count of completed areas goes up (596)
finishArea(t, ok) ==
    /\ pc[t] = "render"
    /\ abort_' = PutPixelAbort(abort_, ok)
    /\ putFailed' = (putFailed \/ ~ok)
    /\ completed_cnt_' = completed_cnt_ + 1
    /\ pc' = [pc EXCEPT ![t] = "start"]
    /\ UNCHANGED <<split_, interactive, started, area_cnt_, next_area_, n_pass_, outputs_,
                   splitter_mutex_, out_mutex_, n, area, ret, handed, lateCall>>
    /\ UNCHANGED <<filmVars, restVars>>

NextArea ==
    \/ \E t \in Threads : nextArea(t)
    \/ \E t \in Threads : \E ok \in BOOLEAN : finishArea(t, ok)

\* the film after init, or (started false) after the constructor alone, with
\* the workers about to call nextArea
InitArea ==
    /\ split_ \in BOOLEAN
    /\ interactive = FALSE
    /\ started \in BOOLEAN
    /\ area_cnt_ = IF ~started THEN 0 ELSE IF split_ THEN SplitterSize ELSE 1
    /\ split_ => started
    /\ next_area_ = 0
    /\ completed_cnt_ = 0
    /\ n_pass_ = 1
    /\ abort_ = FALSE
    /\ outputs_ = {"image", "gui"}
    /\ splitter_mutex_ = NoThread
    /\ out_mutex_ = NoThread
    /\ pc = [t \in Threads |-> "start"]
    /\ n = [t \in Threads |-> 0]
    /\ area = [t \in Threads |-> NoRenderArea]
    /\ ret = [t \in Threads |-> FALSE]
    /\ handed = [k \in Tiles |-> 0]
    /\ lateCall = [t \in Threads |-> FALSE]
    /\ putFailed = FALSE
    /\ InitConcIdle
    /\ InitExtraIdle
    /\ InitFilm({{"Combined"}}, FilmConfigs)

SpecArea == InitArea /\ [][NextArea]_vars

\* the ceiling of the filter half-width filterw_: the least whole number of
\* pixels that is not below it
HalfWidthCeil ==
    CHOOSE c \in 0..max_filter_size_global :
        c * Unit >= FilterW(filt) /\ (c - 1) * Unit < FilterW(filt)

\* C22: safe region of a tile. Every area nextArea has returned, tiled or
\* single, has sx0 = x + c, sx1 = x + w - c, sy0 = y + c, sy1 = y + h - c with
\* c the ceiling of the filter half-width, and its x, y, w, h are those of the
\* splitter's tile, or of the whole image, unchanged.
C22_SafeRegion ==
    \A t \in Threads :
        (ret[t] /\ area[t] # NoRenderArea) =>
            LET a == area[t]
                c == HalfWidthCeil
                r == IF split_ THEN SplitterRegion(n[t]) ELSE WholeRegion
            IN  /\ a.sx_0_ = a.x_ + c /\ a.sx_1_ = a.x_ + a.w_ - c
                /\ a.sy_0_ = a.y_ + c /\ a.sy_1_ = a.y_ + a.h_ - c
                /\ a.x_ = r.x_ /\ a.y_ = r.y_ /\ a.w_ = r.w_ /\ a.h_ = r.h_

\* a thread holds the last tile of a film with the Mitchell filter (half-width
\* 1.95, c = 2) while another has rendered the first one
C22_Witness ==
    /\ split_ /\ filt = "Mitchell"
    /\ \E t, u \in Threads :
        /\ t # u
        /\ ret[t] /\ pc[t] = "render" /\ n[t] = SplitterSize - 1
        /\ area[t].x_ = cx_0_ + Width - area[t].w_
        /\ area[t].sx_0_ = area[t].x_ + 2
        /\ ret[u] /\ n[u] = 0 /\ area[u] # NoRenderArea

\* a film that is not split has delivered the whole image
C22_WitnessSingle ==
    /\ ~split_
    /\ \E t \in Threads : ret[t] /\ area[t] # NoRenderArea /\ area[t].w_ = Width

(***************************************************************************)
(* SpecDensity: worker threads inside addDensitySample and addSample, one  *)
(* load or store at a time. A thread keeps the arguments of its call in    *)
(* cur, its place in the footprint in pos and what it has read in ctmp     *)
(* (a colour) or wtmp (a number).                                          *)
(***************************************************************************)
\* what a step inside addDensitySample does not touch
DensityFrame ==
    /\ UNCHANGED <<tileVarsButPc, ckptVars, adaptVars, sceneVars, loadVars, autoVars,
                   moreVars>>
    /\ UNCHANGED <<have_opencv, film_save, estimate_density_, sent>>

\* line 776: if(!estimate_density_) return; lines 778-805: the filter extent
AddDensitySampleBegin(t, s) ==
    /\ pc[t] = "idle"
    /\ Len(dlog) < MaxSamples
    /\ dlog' = Append(dlog, s)
    /\ flushes' = 0
    /\ IF ~estimate_density_
       THEN UNCHANGED <<pc, cur>>
       ELSE /\ cur' = [cur EXCEPT ![t] = s]
            /\ pc' = [pc EXCEPT ![t] = "ds_lock"]
    /\ UNCHANGED <<density_image_mutex_, density_image_, num_density_samples_>>
    /\ UNCHANGED <<image_mutex_, pos, lpos, wtmp, ctmp>>
    /\ UNCHANGED filmVars

\* line 807: density_image_mutex_.lock()
AddDensitySampleLock(t) ==
    /\ pc[t] = "ds_lock"
    /\ MutexFree(density_image_mutex_)
    /\ density_image_mutex_' = t
    /\ pos' = [pos EXCEPT ![t] = 0]
    /\ pc' = [pc EXCEPT ![t] = "ds_pixel"]
    /\ UNCHANGED <<dlog, flushes, density_image_, num_density_samples_>>
    /\ UNCHANGED <<image_mutex_, cur, lpos, wtmp, ctmp>>
    /\ UNCHANGED filmVars

\* lines 815-816, pixel += c * filter_table_[offset]: the read
AddDensitySampleLoad(t) ==
    /\ pc[t] = "ds_pixel"
    /\ pos[t] < FootprintSize(Extent(cur[t], filt))
    /\ ctmp' = [ctmp EXCEPT ![t] = density_image_[CurPixel(t)]]
    /\ pc' = [pc EXCEPT ![t] = "ds_store"]
    /\ UNCHANGED <<dlog, flushes, density_image_mutex_, density_image_,
                   num_density_samples_>>
    /\ UNCHANGED <<image_mutex_, cur, pos, lpos, wtmp>>
    /\ UNCHANGED filmVars

\* lines 815-816: the write, then the next pixel of the footprint
AddDensitySampleStore(t) ==
    /\ pc[t] = "ds_store"
    /\ density_image_' =
         [density_image_ EXCEPT ![CurPixel(t)] =
            ColAdd(ctmp[t], ColMul(DensityColor(cur[t].c), FilterWt(cur[t], filt, CurPixel(t))))]
    /\ ctmp' = [ctmp EXCEPT ![t] = Black]
    /\ pos' = [pos EXCEPT ![t] = @ + 1]
    /\ pc' = [pc EXCEPT ![t] = "ds_pixel"]
    /\ UNCHANGED <<dlog, flushes, density_image_mutex_, num_density_samples_>>
    /\ UNCHANGED <<image_mutex_, cur, lpos, wtmp>>
    /\ UNCHANGED filmVars

\* line 820, ++num_density_samples_: the read, after the last pixel
AddDensitySampleLoadCount(t) ==
    /\ pc[t] = "ds_pixel"
    /\ pos[t] = FootprintSize(Extent(cur[t], filt))
    /\ wtmp' = [wtmp EXCEPT ![t] = num_density_samples_]
    /\ pc' = [pc EXCEPT ![t] = "ds_count"]
    /\ UNCHANGED <<dlog, flushes, density_image_mutex_, density_image_,
                   num_density_samples_>>
    /\ UNCHANGED <<image_mutex_, cur, pos, lpos, ctmp>>
    /\ UNCHANGED filmVars

\* line 820: the write
AddDensitySampleStoreCount(t) ==
    /\ pc[t] = "ds_count"
    /\ num_density_samples_' = wtmp[t] + 1
    /\ wtmp' = [wtmp EXCEPT ![t] = 0]
    /\ pc' = [pc EXCEPT ![t] = "ds_unlock"]
    /\ UNCHANGED <<dlog, flushes, density_image_mutex_, density_image_>>
    /\ UNCHANGED <<image_mutex_, cur, pos, lpos, ctmp>>
    /\ UNCHANGED filmVars

\* line 822: density_image_mutex_.unlock()
AddDensitySampleUnlock(t) ==
    /\ pc[t] = "ds_unlock"
    /\ density_image_mutex_' = NoThread
    /\ cur' = [cur EXCEPT ![t] = NoSample]
    /\ pos' = [pos EXCEPT ![t] = 0]
    /\ pc' = [pc EXCEPT ![t] = "idle"]
    /\ UNCHANGED <<dlog, flushes, density_image_, num_density_samples_>>
    /\ UNCHANGED <<image_mutex_, lpos, wtmp, ctmp>>
    /\ UNCHANGED filmVars

NextDensity ==
    \E t \in Threads :
        \/ (\E s \in DensitySamples : AddDensitySampleBegin(t, s)) /\ DensityFrame
        \/ AddDensitySampleLock(t) /\ DensityFrame
        \/ AddDensitySampleLoad(t) /\ DensityFrame
        \/ AddDensitySampleStore(t) /\ DensityFrame
        \/ AddDensitySampleLoadCount(t) /\ DensityFrame
        \/ AddDensitySampleStoreCount(t) /\ DensityFrame
        \/ AddDensitySampleUnlock(t) /\ DensityFrame
        \/ (\E s \in DensitySamples : AddSampleBegin(t, s)) /\ ConcFrame
        \/ AddSampleLock(t) /\ ConcFrame
        \/ AddSampleLoadWeight(t) /\ ConcFrame
        \/ AddSampleStoreWeight(t) /\ ConcFrame
        \/ AddSampleLoadColor(t) /\ ConcFrame
        \/ AddSampleStoreColor(t) /\ ConcFrame
        \/ AddSampleUnlock(t) /\ ConcFrame

\* a film after init, with density estimation enabled or not
InitDensity ==
    /\ InitTilesIdle
    /\ InitConcIdle
    /\ InitCkptIdle
    /\ InitAdaptIdle
    /\ InitSceneIdle
    /\ InitLateIdle
    /\ have_opencv = FALSE
    /\ film_save = FALSE
    /\ estimate_density_ \in BOOLEAN
    /\ density_image_ = EmptyDensity
    /\ num_density_samples_ = 0
    /\ sent = NoneSent
    /\ flushes = 0
    /\ InitFilm({{"Combined"}}, {<<"Box", 0>>})

SpecDensity == InitDensity /\ [][NextDensity]_vars

\* the positions of a thread inside addDensitySample
DensityPcs == {"ds_lock", "ds_pixel", "ds_store", "ds_count", "ds_unlock"}

\* a step of an addDensitySample call
DensityStep == dlog' # dlog \/ \E t \in Threads : pc[t] \in DensityPcs /\ pc'[t] # pc[t]

\* what the density calls of a log add to pixel p
RECURSIVE SumDensity(_, _)
SumDensity(samples, p) ==
    IF samples = <<>> THEN Black
    ELSE LET s == Head(samples)
         IN  ColAdd(IF InFootprint(s, filt, p)
                    THEN ColMul(DensityColor(s.c), FilterWt(s, filt, p))
                    ELSE Black,
                    SumDensity(Tail(samples), p))

\* C23: the density path is disjoint from the main accumulator. No step of
\* addDensitySample changes the weight buffer, a layer image or the image
\* mutex; with density estimation disabled a call changes nothing; with it
\* enabled, once the calls issued have all returned, however their steps
\* interleaved with each other and with addSample, the density-sample counter
\* is the number of calls and every pixel of the density image holds the sum
\* of their contributions.
C23_DensityDisjoint ==
    /\ [][DensityStep => UNCHANGED <<weights_, image_layers_, image_mutex_>>]_vars
    /\ [][(DensityStep /\ ~estimate_density_) =>
            UNCHANGED <<pc, density_image_, num_density_samples_, density_image_mutex_>>]_vars
    /\ []((Quiescent /\ estimate_density_) =>
            /\ num_density_samples_ = Len(dlog)
            /\ \A p \in Pixels : density_image_[p] = SumDensity(dlog, p))

\* two density calls have returned, both have added to a common pixel, and a
\* thread holds the density mutex while another holds the image mutex
C23_Witness ==
    /\ estimate_density_
    /\ Len(dlog) = 2
    /\ num_density_samples_ = 1
    /\ \E t, u \in Threads :
        /\ density_image_mutex_ = t /\ pc[t] = "ds_store" /\ pos[t] > 0
        /\ image_mutex_ = u /\ pc[u] = "as_cstore"

(***************************************************************************)
(* SpecAutosave: a film with autosave intervals receives samples and       *)
(* nextPass calls.                                                         *)
(***************************************************************************)
\* the calls issued between the passes
AutoSamples == {s \in Samples : s.x = cx_0_ /\ s.y = cy_0_ /\ s.c = 2}

AddSampleAuto ==
    /\ \E s \in AutoSamples : addSample(s)
    /\ UNCHANGED <<tileVars, concVars, extraVars>>

NextAutosave ==
    \/ AddSampleAuto
    \/ \E adaptive_aa, skip \in BOOLEAN :
         /\ images_auto_save_params_.pass_counter_ < MaxAutoPasses
         /\ nextPass(adaptive_aa, skip)

\* images autosave: interval type and passes; film autosave: passes
AutosaveConfigs ==
    {"None", "Pass", "Time"} \X {1, 2} \X {1, 2}

\* the film after factory and init: autosave parameters as given, counters 0
InitAutosave ==
    /\ InitTilesIdle
    /\ InitConcIdle
    /\ InitCkptIdle
    /\ InitAdaptIdle
    /\ InitSceneIdle
    /\ film_files = NoFolder /\ resumed = FALSE /\ beforeLoad = NoFilm /\ loadCalls = 0
    /\ density_image_mutex_ = NoThread /\ dlog = <<>>
    /\ InitMoreIdle
    /\ \E cfg \in AutosaveConfigs :
        /\ images_auto_save_params_ =
             [interval_type_ |-> cfg[1], interval_passes_ |-> cfg[2], pass_counter_ |-> 0]
        /\ film_auto_save_ =
             [interval_type_ |-> "Pass", interval_passes_ |-> cfg[3], pass_counter_ |-> 0]
    /\ in_progress \in BOOLEAN
    /\ passFlushed = FALSE
    /\ elapsed = 0
    /\ have_opencv = FALSE
    /\ film_save \in BOOLEAN
    /\ estimate_density_ = FALSE
    /\ density_image_ = EmptyDensity
    /\ num_density_samples_ = 0
    /\ sent = NoneSent
    /\ flushes = 0
    /\ InitFilm({{"Combined"}}, {<<"Box", 0>>})

SpecAutosave == InitAutosave /\ [][NextAutosave]_vars

\* C24: pass-interval image autosave fires every N passes. With the images
\* autosave set to pass-interval with interval N, a nextPass call flushes the
\* image outputs only when N passes have elapsed since the previous autosave
\* or since init, also after the first autosave.
C24_AutosaveEveryN ==
    [][(n_pass_' = n_pass_ + 1 /\ images_auto_save_params_.interval_type_ = "Pass"
        /\ passFlushed')
          => elapsed + 1 >= images_auto_save_params_.interval_passes_]_vars

(***************************************************************************)
(* SpecFootprint: one addSample call, up to the loops that update the      *)
(* pixels, on a film of FootSize x FootSize pixels and for the filter      *)
(* widths the constructor can produce.                                     *)
(***************************************************************************)
\* AA_pixelwidth given to factory: none of it, the default, wide, too wide
FootFilterSizes == {0, filt_sz, 3000, 9000}

FootFilterTypes == {"Box", "Mitchell", "Gauss", "Lanczos"}

\* sub-pixel offsets in [0, 1)
FootOffsets == {0, 250, 500, 750, 999}

\* a corner pixel, a pixel in the middle, the opposite corner
FootPositions == {0, FootSize \div 2, FootSize - 1}

\* lines 728-742: the entries of x_index (or y_index) written, for i = lo..hi
IndexArray(lo, hi, d, fw) == [k \in 1..(hi - lo + 1) |-> TableIndex(lo + k - 1, d, fw)]

\* addSample lines 717-746
addSampleFootprint ==
    /\ foot = NoFoot
    /\ LET fw == fin.fw
           lx == ExtentLo(fin.cx_0, fin.x, fin.d, fw)
           hx == ExtentHi(fin.cx_0 + fin.width, fin.x, fin.d, fw)
           ly == ExtentLo(fin.cy_0, fin.y, fin.d, fw)
           hy == ExtentHi(fin.cy_0 + fin.height, fin.y, fin.d, fw)
       IN  /\ x_index' = IndexArray(lx, hx, fin.d, fw)
           /\ y_index' = IndexArray(ly, hy, fin.d, fw)
           /\ foot' = [x_0 |-> fin.x + lx, x_1 |-> fin.x + hx,
                       y_0 |-> fin.y + ly, y_1 |-> fin.y + hy]
    /\ UNCHANGED fin
    /\ UNCHANGED <<tileVars, filmVars, concVars, ckptVars, flushVars, adaptVars, sceneVars,
                   loadVars, densVars, autoVars, lastVars>>

NextFootprint == addSampleFootprint

InitFootprint ==
    /\ InitTilesIdle
    /\ InitConcIdle
    /\ InitCkptIdle
    /\ InitFlushIdle
    /\ InitAdaptIdle
    /\ InitSceneIdle
    /\ film_files = NoFolder /\ resumed = FALSE /\ beforeLoad = NoFilm /\ loadCalls = 0
    /\ density_image_mutex_ = NoThread /\ dlog = <<>>
    /\ images_auto_save_params_ = NoAutoSave /\ film_auto_save_ = NoAutoSave
    /\ in_progress = TRUE /\ passFlushed = FALSE /\ elapsed = 0
    /\ InitFilm({{"Combined"}}, {<<"Box", 0>>})
    /\ \E sz \in FootFilterSizes, f \in FootFilterTypes, d \in FootOffsets,
          px, py \in FootPositions :
         fin = [cx_0 |-> cx_0_, cy_0 |-> cy_0_, width |-> FootSize, height |-> FootSize,
                x |-> cx_0_ + px, y |-> cy_0_ + py, d |-> d, fw |-> filterw_(sz, f)]
    /\ x_index = <<>>
    /\ y_index = <<>>
    /\ foot = NoFoot
    /\ InitLastIdle

SpecFootprint == InitFootprint /\ [][NextFootprint]_vars

\* C25: the sample footprint stays in bounds. For an addSample call whose
\* pixel lies inside the film and whose sub-pixel offset is in [0, 1), every
\* pixel it updates lies inside the film, it writes at most
\* max_filter_size_global + 1 = 9 entries of x_index and of y_index, and every
\* filter-table offset it computes lies in [0, 16 * 16).
C25_FootprintInBounds ==
    foot # NoFoot =>
        /\ fin.cx_0 <= foot.x_0 /\ foot.x_1 < fin.cx_0 + fin.width
        /\ fin.cy_0 <= foot.y_0 /\ foot.y_1 < fin.cy_0 + fin.height
        /\ foot.x_0 <= foot.x_1 /\ foot.y_0 <= foot.y_1
        /\ Len(x_index) = foot.x_1 - foot.x_0 + 1
        /\ Len(y_index) = foot.y_1 - foot.y_0 + 1
        /\ Len(x_index) <= max_filter_size_global + 1
        /\ Len(y_index) <= max_filter_size_global + 1
        /\ \A a \in 1..Len(y_index), b \in 1..Len(x_index) :
             LET offset == y_index[a] * filter_table_size_global + x_index[b]
             IN  0 <= offset /\ offset < filter_table_size_global * filter_table_size_global

\* a call with the widest filter in the middle of the film has its widest
\* footprint and reaches the last entry of a row of the filter table
C25_Witness ==
    /\ foot # NoFoot
    /\ fin.fw = (max_filter_size_global * Unit) \div 2
    /\ Len(x_index) = max_filter_size_global
    /\ Len(y_index) = max_filter_size_global
    /\ x_index[Len(x_index)] = filter_table_size_global - 1
    /\ fin.x = fin.cx_0 + FootSize \div 2 /\ fin.cx_0 < foot.x_0

\* a call in the far corner is cut at the film's edge
C25_WitnessEdge ==
    /\ foot # NoFoot
    /\ fin.x = fin.cx_0 + fin.width - 1
    /\ foot.x_1 = fin.x
    /\ roundToInt(fin.d + fin.fw - Unit) > 0

(***************************************************************************)
(* SpecReinit: the film is rendered, with samples added between the tile   *)
(* calls, and init is called again on it (the render of the next view).    *)
(***************************************************************************)
NextReinit ==
    \/ AddSampleAuto
    \/ init
    \/ nextPassTiles
    \/ renderPass
    \/ \E t \in Threads : Worker(t)

SpecReinit == InitTilesFilm /\ [][NextReinit]_vars

\* C27: init yields an empty film. After init, with no film file loaded and
\* whatever samples were accumulated before, every pixel's weight is zero,
\* every layer's colour is zero, the abort flag is false, the pass number is
\* 1 and the next tile index is 0.
C27_InitEmptyFilm ==
    [][init => /\ weights_' = EmptyWeights
               /\ image_layers_' = EmptyImages(layers_)
               /\ ~abort_'
               /\ n_pass_' = 1
               /\ next_area_' = 0]_vars

(***************************************************************************)
(* SpecAgree: samples are added, the tile of a worker is finished and the  *)
(* film is flushed. The films have no edge or toon layer (lines 510-518    *)
(* and 616-624 do nothing) and no autosave interval (567-594 do nothing).  *)
(***************************************************************************)
\* Rgba(float): the value in every component
RgbaGray(g) == <<g, g, g, g>>

\* the film-relative pixels of tile k: a.x_ - cx_0_ <= i < end_x, the same for j
TilePixels(k) ==
    LET a == SplitterRegion(k)
    IN  {p \in Pixels : /\ a.x_ - cx_0_ <= p[1] /\ p[1] < a.x_ + a.w_ - cx_0_
                        /\ a.y_ - cy_0_ <= p[2] /\ p[2] < a.y_ + a.h_ - cy_0_}

\* lines 524-544: color_layers(layer).color_ for pixel p, in 1/Unit
FinishAreaColor(l, p, imgs) ==
    LET weight == weights_[p]
        nrm == normalized(imgs[l][p], weight)
    IN  IF l = "AaSamples" THEN RgbaGray(weight)
        ELSE IF l \in IndexLayers THEN CeilColor(nrm)
        ELSE nrm

\* lines 545-551: the outputs finishArea gives the pixels to
PutPixelOutputs == {o \in outputs_ : o # "image"}

\* ImageFilm::finishArea for tile k; ok: every putPixel returned true
FinishAreaAgree(k, ok) ==
    /\ put = NoPut
    /\ MutexFree(out_mutex_)
    /\ put' = [tile |-> k, to |-> PutPixelOutputs,
               colors |-> [l \in DOMAIN image_layers_ |->
                              [p \in TilePixels(k) |-> FinishAreaColor(l, p, image_layers_)]]]
    /\ abort_' = PutPixelAbort(abort_, ok)
    /\ putFailed' = (putFailed \/ ~ok)
    /\ completed_cnt_' = completed_cnt_ + 1
    /\ UNCHANGED <<split_, interactive, started, area_cnt_, next_area_, n_pass_, outputs_,
                   splitter_mutex_, out_mutex_, pc, n, area, ret, handed, lateCall>>
    /\ UNCHANGED <<filmVars, concVars, ckptVars, flushVars, adaptVars, sceneVars, loadVars,
                   densVars, autoVars>>
    /\ UNCHANGED <<fin, x_index, y_index, foot>>
    /\ UNCHANGED <<stack_, calls, scene_layers_, types_order, dependent>>

\* the samples of the tiles arrive before the tile is finished
Rendering == put = NoPut

NextAgree ==
    \/ Rendering /\ AddSampleFlush /\ FlushFrame
    \/ \E k \in Tiles, ok \in PutPixelResults : FinishAreaAgree(k, ok)
    \/ FlushCall /\ FlushFrame

InitAgree ==
    /\ InitTilesIdle
    /\ InitConcIdle
    /\ InitCkptIdle
    /\ InitFlushIdle
    /\ InitAdaptIdle
    /\ InitSceneIdle
    /\ InitLateIdle
    /\ InitFilm({{"Combined", "AaSamples", "ObjIndexAbs"}}, {<<"Box", 3>>})

SpecAgree == InitAgree /\ [][NextAgree]_vars

\* C28: finishArea and flush agree on pixel values. For the same accumulator
\* contents and a flush with the regular-image flag alone, the colour
\* finishArea gave to putPixel for a pixel of its tile and a layer is the
\* colour flush gave for the same pixel and layer, for every layer, the
\* AA-samples layer and the index layers included.
C28_FinishAreaAgreesWithFlush ==
    (put # NoPut /\ flushes >= 1 /\ sent.flags = {"RegularImage"})
        => \A l \in layers_ : \A p \in TilePixels(put.tile) :
               put.colors[l][p] = sent.colors[l][p]

(***************************************************************************)
(* SpecObjects: Scene::startObjects and Scene::endObjects, called in any   *)
(* order on a scene after its constructor.                                 *)
(***************************************************************************)
\* everything but the creation state stack and the history of the calls
ObjectsFrame ==
    /\ UNCHANGED <<tileVars, filmVars, concVars, ckptVars, flushVars, adaptVars, sceneVars,
                   loadVars, densVars, autoVars>>
    /\ UNCHANGED <<fin, x_index, y_index, foot, put, scene_layers_, types_order, dependent>>

\* stack_.front(), push_front, pop_front
front(st) == Head(st)

push_front(st, v) == <<v>> \o st

pop_front(st) == Tail(st)

\* line 116: if(creation_state_.stack_.front() != CreationState::Ready) return false;
StartAllowed(st) == front(st) = "Ready"

\* line 123: if(creation_state_.stack_.front() != CreationState::Geometry) return false;
EndAllowed_Always(st) == TRUE

EndAllowed(st) == front(st) = "Geometry"

Called(op, r, after) == Append(calls, [op |-> op, ret |-> r, before |-> stack_, after |-> after])

\* Scene::startObjects
startObjects ==
    /\ Len(calls) < MaxCalls
    /\ IF StartAllowed(stack_)
       THEN stack_' = push_front(stack_, "Geometry")
       ELSE stack_' = stack_
    /\ calls' = Called("startObjects", StartAllowed(stack_), stack_')

\* Scene::endObjects
endObjects ==
    /\ Len(calls) < MaxCalls
    /\ IF EndAllowed(stack_)
       THEN stack_' = pop_front(stack_)
       ELSE stack_' = stack_
    /\ calls' = Called("endObjects", EndAllowed(stack_), stack_')

NextObjects ==
    \/ startObjects /\ ObjectsFrame
    \/ endObjects /\ ObjectsFrame

InitObjects ==
    /\ InitTilesIdle
    /\ InitConcIdle
    /\ InitExtraIdle
    /\ InitFilm({{"Combined"}}, {<<"Box", 0>>})

SpecObjects == InitObjects /\ [][NextObjects]_vars

\* C29: the creation state stack. After any sequence of startObjects and
\* endObjects calls the stack is not empty and has Ready at its bottom;
\* startObjects returned true exactly when the top was Ready, and then pushed
\* Geometry; endObjects returned true exactly when the top was Geometry, and
\* then popped it; a call that returned false left the stack as it was.
C29_StateStack ==
    /\ Len(stack_) >= 1
    /\ stack_[Len(stack_)] = "Ready"
    /\ \A k \in 1..Len(calls) :
         LET c == calls[k]
         IN  /\ Len(c.before) >= 1
             /\ c.op = "startObjects" =>
                  /\ c.ret = (c.before[1] = "Ready")
                  /\ c.ret => c.after = <<"Geometry">> \o c.before
             /\ c.op = "endObjects" =>
                  /\ c.ret = (c.before[1] = "Geometry")
                  /\ c.ret => c.after = SubSeq(c.before, 2, Len(c.before))
             /\ ~c.ret => c.after = c.before

\* both calls have succeeded and both have been refused
C29_Witness ==
    /\ Len(calls) >= 4
    /\ \E a, b, c, d \in 1..Len(calls) :
         /\ a < b /\ b < c /\ c < d
         /\ calls[a].op = "startObjects" /\ calls[a].ret
         /\ calls[b].op = "startObjects" /\ ~calls[b].ret
         /\ calls[c].op = "endObjects" /\ calls[c].ret
         /\ calls[d].op = "endObjects" /\ ~calls[d].ret
    /\ stack_ = <<"Ready">>

(***************************************************************************)
(* SpecLayers: layers are defined on a scene, then defineDependentLayers   *)
(* runs once. layers_ is iterated in the order of the layer types, and a   *)
(* layer defined during the loop is visited when it lies after the layer   *)
(* being visited.                                                          *)
(***************************************************************************)
LayersFrame ==
    /\ UNCHANGED <<tileVars, filmVars, concVars, ckptVars, flushVars, adaptVars, sceneVars,
                   loadVars, densVars, autoVars>>
    /\ UNCHANGED <<fin, x_index, y_index, foot, put, stack_, calls, types_order>>

LayerNames == {LayerTypes[k] : k \in 1..Len(LayerTypes)}

Reversed(sq) == [k \in 1..Len(sq) |-> sq[Len(sq) + 1 - k]]

\* the place of layer type l in the iteration order
TypePos(l) == CHOOSE k \in 1..Len(types_order) : types_order[k] = l

\* lines 778-816: defineLayer(layer_type) on the set of defined layer types
defineLayer(ls, l) == ls \cup {l}

\* if(!layers_.isDefined(test)) defineLayer(l);
DefineUnless(ls, test, l) == IF test \in ls THEN ls ELSE defineLayer(ls, l)

\* the slips of lines 861 and 871 put right
SecondTest_Own(own, first) == own

\* lines 861 and 871: the second line tests the layer of the first
SecondTest(own, first) == first

\* lines 832-882: the case of layer l
DependentCase(l, ls) ==
    LET one(a) == DefineUnless(ls, a, a)
        two(a, b) == DefineUnless(one(a), b, b)
        three(a, b, c) == DefineUnless(two(a, b), c, c)
        slip(a, b) == DefineUnless(one(a), SecondTest(b, a), b)
    IN  CASE l = "ZDepthNorm" -> one("Mist")
          [] l = "Mist" -> one("ZDepthNorm")
          [] l = "ReflectAll" -> three("ReflectPerfect", "Glossy", "GlossyIndirect")
          [] l = "RefractAll" -> three("RefractPerfect", "Trans", "TransIndirect")
          [] l = "IndirectAll" -> two("Indirect", "DiffuseIndirect")
          [] l = "ObjIndexMaskAll" -> slip("ObjIndexMask", "ObjIndexMaskShadow")
          [] l = "MatIndexMaskAll" -> two("MatIndexMask", "MatIndexMaskShadow")
          [] l = "DebugFacesEdges" -> slip("NormalGeom", "ZDepthNorm")
          [] l = "DebugObjectsEdges" -> two("NormalSmooth", "ZDepthNorm")
          [] l = "Toon" -> one("DebugObjectsEdges")
          [] OTHER -> ls

\* line 830: for(const auto &layer : layers_), from the layer after place at
RECURSIVE DependentLoop(_, _)
DependentLoop(ls, at) ==
    LET rest == {TypePos(l) : l \in {m \in ls : TypePos(m) > at}}
    IN  IF rest = {} THEN ls
        ELSE LET k == CHOOSE a \in rest : \A b \in rest : a <= b
             IN  DependentLoop(DependentCase(types_order[k], ls), k)

\* Scene::defineLayer, called by the interface before setupScene
DefineLayerCall ==
    /\ ~dependent
    /\ Cardinality(scene_layers_) < MaxLayers
    /\ \E l \in LayerNames \ scene_layers_ : scene_layers_' = defineLayer(scene_layers_, l)
    /\ UNCHANGED dependent

\* Scene::defineDependentLayers
defineDependentLayers ==
    /\ ~dependent
    /\ scene_layers_' = DependentLoop(scene_layers_, 0)
    /\ dependent' = TRUE

NextLayers ==
    \/ DefineLayerCall /\ LayersFrame
    \/ defineDependentLayers /\ LayersFrame

InitLayers ==
    /\ InitTilesIdle
    /\ InitConcIdle
    /\ InitCkptIdle
    /\ InitFlushIdle
    /\ InitAdaptIdle
    /\ InitSceneIdle
    /\ film_files = NoFolder /\ resumed = FALSE /\ beforeLoad = NoFilm /\ loadCalls = 0
    /\ density_image_mutex_ = NoThread /\ dlog = <<>>
    /\ images_auto_save_params_ = NoAutoSave /\ film_auto_save_ = NoAutoSave
    /\ in_progress = TRUE /\ passFlushed = FALSE /\ elapsed = 0
    /\ fin = [cx_0 |-> cx_0_, cy_0 |-> cy_0_, width |-> Width, height |-> Height,
              x |-> cx_0_, y |-> cy_0_, d |-> 0, fw |-> Unit]
    /\ x_index = <<>> /\ y_index = <<>> /\ foot = NoFoot
    /\ put = NoPut /\ stack_ = InitStack /\ calls = <<>>
    /\ scene_layers_ = {}
    /\ types_order \in {LayerTypes, Reversed(LayerTypes)}
    /\ dependent = FALSE
    /\ InitFilm({{"Combined"}}, {<<"Box", 0>>})

SpecLayers == InitLayers /\ [][NextLayers]_vars

\* the layers a layer depends on
DependsOn(l) ==
    CASE l = "ZDepthNorm" -> {"Mist"}
      [] l = "Mist" -> {"ZDepthNorm"}
      [] l = "ReflectAll" -> {"ReflectPerfect", "Glossy", "GlossyIndirect"}
      [] l = "RefractAll" -> {"RefractPerfect", "Trans", "TransIndirect"}
      [] l = "IndirectAll" -> {"Indirect", "DiffuseIndirect"}
      [] l = "ObjIndexMaskAll" -> {"ObjIndexMask", "ObjIndexMaskShadow"}
      [] l = "MatIndexMaskAll" -> {"MatIndexMask", "MatIndexMaskShadow"}
      [] l = "DebugFacesEdges" -> {"NormalGeom", "ZDepthNorm"}
      [] l = "DebugObjectsEdges" -> {"NormalSmooth", "ZDepthNorm"}
      [] l = "Toon" -> {"DebugObjectsEdges"}
      [] OTHER -> {}

\* C30: dependent layers are closed under dependency. After
\* defineDependentLayers, whatever layers were defined before, every layer
\* each defined layer depends on is defined too.
C30_DependencyClosed ==
    dependent => \A l \in scene_layers_ : DependsOn(l) \subseteq scene_layers_

====
